---- MODULE Spec2Model ----
(***************************************************************************)
(* EcoScheduler: the energy-aware scheduling engine.                       *)
(*                                                                         *)
(*   energy_scheduler.py    EnergyBasedScheduler, the Slot-Packing         *)
(*                          strategy: capacity, static priority, packing,  *)
(*                          execution with the two-rule deferral policy,   *)
(*                          execution report.                              *)
(*   enhanced_scheduler.py  EnhancedEcoScheduler, the Sequential strategy: *)
(*                          adapted priority, the full deferral policy,    *)
(*                          priority-ordered dispatch, enhanced_log.txt.   *)
(*                                                                         *)
(* Numbers.  Priorities are floating point in the source; here they are    *)
(* exact integers on a fixed scale (static priority * 6000, adapted        *)
(* priority * 10^5), which orders and ties the values exactly as the       *)
(* floating-point products do on the modelled inputs.  Times are offsets   *)
(* from datetime.now() at packing time, in sixths of a second, the unit in *)
(* which every current_slot_energy / energy_per_second quotient is whole.  *)
(***************************************************************************)
EXTENDS Integers, Sequences, FiniteSets, TLC

VARIABLES
    strategy,           \* which program runs: "slot", "seq", or "policy" probe
    pc,                 \* position of the running program
    system_info,        \* self.system_info: the parsed monitor.txt
    profiles,           \* self.profiles: the parsed profiles.json
    tasks,              \* self.tasks
    energy_capacity,    \* self.energy_capacity
    time_slots,         \* self.time_slots
    task_energy_data,   \* create_optimal_schedule's task_energy_data list
    packing,            \* the variables of create_optimal_schedule's loop
    pack_i,             \* how many items the packing loop has passed
    exec_i,             \* how many slot entries execute_schedule has passed
    current_executing,  \* self.current_executing (its keys)
    completed_tasks,    \* self.completed_tasks
    deferred_tasks,     \* self.deferred_tasks
    task_priorities,    \* run_scheduler's task_priorities list
    seq_i,              \* how many entries run_scheduler's loop has passed
    executed_count,     \* run_scheduler's executed_count
    deferred_count,     \* run_scheduler's deferred_count
    enhanced_log,       \* the lines this run appended to enhanced_log.txt
    calls,              \* scheduler methods called so far on one object
    environ,            \* os.environ of the process
    tasks_txt,          \* the lines of tasks.txt, each a sequence of characters
    api,                \* the web API: its requests, the runs it launched,
                        \* execution_report.json
    sleeps,             \* the arguments of the time.sleep calls so far
    policy_result       \* what the probed deferral policy returned

vars == << strategy, pc, system_info, profiles, tasks, energy_capacity,
           time_slots, task_energy_data, packing, pack_i, exec_i, current_executing, completed_tasks,
           deferred_tasks, task_priorities, seq_i, executed_count,
           deferred_count, enhanced_log, calls, environ, tasks_txt, api,
           sleeps, policy_result >>

-----------------------------------------------------------------------------
(* Bounds of the model *)

MaxTasks == 3

MaxCalls == 4

MaxOpsTasks == 2

MaxStarts == 2

MaxPolls == 2

-----------------------------------------------------------------------------
(* Inputs: the three files the schedulers read *)

Tiers == {"low", "medium", "high"}

Loads == {"low", "medium", "high"}

\* profiles.json: the tier map
ProfilesFile == [backup |-> "high", sync |-> "low", report |-> "medium"]

Task(n, d) == [name |-> n, duration |-> d]

\* the lines a tasks.txt of a Slot-Packing run is made of: total energies
\* 0, 5, 10, 50 (low), 15, 30, 150 (medium), 0, 30, 60 (high)
SlotTaskRecords ==
    { Task("sync", 0), Task("sync", 1), Task("sync", 2), Task("sync", 10),
      Task("report", 1), Task("report", 2), Task("report", 10),
      Task("backup", 0), Task("backup", 1), Task("backup", 2) }

\* the lines a tasks.txt of a Sequential run is made of
SeqTaskRecords ==
    { Task("backup", 60), Task("sync", 10), Task("report", 2),
      Task("sync", 1) }

TaskLists(records, n) == UNION { [1..k -> records] : k \in 0..n }

\* dict.get(key, default)
Get(d, key, default) == IF key \in DOMAIN d THEN d[key] ELSE default

NoInfo == [x \in {} |-> 0]

\* execution_report.json does not exist
NoFile == [exists |-> FALSE, content |-> "none", writer |-> 0]

\* the answer of a poll that was never made
NoResponse == [success |-> FALSE, has_schedule |-> FALSE, writer |-> 0]

\* the API server is up; no request has come in
ApiIdle ==
    [cleared |-> 0,
     request |-> [q \in 1..MaxStarts |-> "none"],
     run |-> [r \in 1..MaxStarts |-> "none"],
     report_file |-> NoFile,
     polls |-> 0,
     polled |-> NoResponse]

\* monitor.txt as monitor.py writes it; temperature is written only when a
\* sensor exists.
Snapshot(b, ac, load, stress) ==
    [battery_percent |-> b, on_ac |-> ac, load_category |-> load,
     system_stress |-> stress]

SnapshotT(b, ac, load, stress, temp) ==
    [battery_percent |-> b, on_ac |-> ac, load_category |-> load,
     system_stress |-> stress, temperature |-> temp]

BatteryLevels == {15, 19, 20, 29, 30, 49, 50, 100}

Temperatures == {60, 70, 71, 80, 81}

Stresses == {"low", "medium", "high"}

\* every snapshot the deferral policies are probed with
PolicySnapshots ==
    { Snapshot(b, ac, l, s) :
        b \in BatteryLevels, ac \in BOOLEAN, l \in Loads, s \in Stresses }
    \cup
    { SnapshotT(b, ac, l, s, t) :
        b \in BatteryLevels, ac \in BOOLEAN, l \in Loads, s \in Stresses,
        t \in Temperatures }
    \cup { NoInfo }

\* snapshots a Slot-Packing run is started with: capacities 100, 100, 60,
\* 20, 50 and 56
SlotSnapshots ==
    { NoInfo,
      Snapshot(100, TRUE, "low", "low"),
      Snapshot(100, TRUE, "high", "medium"),
      Snapshot(15, FALSE, "high", "high"),
      Snapshot(25, FALSE, "low", "medium"),
      Snapshot(45, FALSE, "medium", "high") }

\* snapshots a Sequential run is started with
SeqSnapshots ==
    { Snapshot(b, FALSE, l, s) :
        b \in {15, 25, 100}, l \in {"low", "high"}, s \in {"low", "high"} }
    \cup
    { SnapshotT(100, TRUE, "low", "low", t) : t \in {75, 85} }
    \cup { NoInfo }

-----------------------------------------------------------------------------
(* EnergyBasedScheduler: capacity, task energy, static priority *)

\* the keys of monitor.txt are written over those self.system_info holds;
\* the other keys stay
load_system_info(old, file) ==
    [key \in DOMAIN old \cup DOMAIN file |->
        IF key \in DOMAIN file THEN file[key] ELSE old[key]]

\* a capacity rule that takes a battery missing from the snapshot as empty
adjust_energy_capacity_empty_battery(info) ==
    LET battery == Get(info, "battery_percent", 0)
        on_ac == Get(info, "on_ac", TRUE)
        cpu_load == Get(info, "load_category", "low")
        b10 == IF ~on_ac
               THEN IF battery < 20 THEN 3
                    ELSE IF battery < 30 THEN 5
                    ELSE IF battery < 50 THEN 7 ELSE 10
               ELSE 10
        l10 == IF cpu_load = "high" THEN 6
               ELSE IF cpu_load = "medium" THEN 8 ELSE 10
        base_capacity == (100 * b10 * l10) \div 100
    IN  IF base_capacity > 20 THEN base_capacity ELSE 20

\* a capacity rule whose battery brackets include their upper ends
adjust_energy_capacity_inclusive(info) ==
    LET battery == Get(info, "battery_percent", 100)
        on_ac == Get(info, "on_ac", TRUE)
        cpu_load == Get(info, "load_category", "low")
        b10 == IF ~on_ac
               THEN IF battery <= 20 THEN 3
                    ELSE IF battery <= 30 THEN 5
                    ELSE IF battery <= 50 THEN 7 ELSE 10
               ELSE 10
        l10 == IF cpu_load = "high" THEN 6
               ELSE IF cpu_load = "medium" THEN 8 ELSE 10
        base_capacity == (100 * b10 * l10) \div 100
    IN  IF base_capacity > 20 THEN base_capacity ELSE 20

\* a capacity rule without the floor of 20
adjust_energy_capacity_unclamped(info) ==
    LET battery == Get(info, "battery_percent", 100)
        on_ac == Get(info, "on_ac", TRUE)
        cpu_load == Get(info, "load_category", "low")
        b10 == IF ~on_ac
               THEN IF battery < 20 THEN 3
                    ELSE IF battery < 30 THEN 5
                    ELSE IF battery < 50 THEN 7 ELSE 10
               ELSE 10
        l10 == IF cpu_load = "high" THEN 6
               ELSE IF cpu_load = "medium" THEN 8 ELSE 10
    IN  (100 * b10 * l10) \div 100

\* int(100 * b * l) with b in {1, 0.3, 0.5, 0.7} and l in {1, 0.6, 0.8},
\* computed on the scale 100 * 10 * 10
adjust_energy_capacity(info) ==
    LET battery == Get(info, "battery_percent", 100)
        on_ac == Get(info, "on_ac", TRUE)
        cpu_load == Get(info, "load_category", "low")
        b10 == IF ~on_ac
               THEN IF battery < 20 THEN 3
                    ELSE IF battery < 30 THEN 5
                    ELSE IF battery < 50 THEN 7 ELSE 10
               ELSE 10
        l10 == IF cpu_load = "high" THEN 6
               ELSE IF cpu_load = "medium" THEN 8 ELSE 10
        base_capacity == (100 * b10 * l10) \div 100
    IN  IF base_capacity > 20 THEN base_capacity ELSE 20

\* one energy rate for every tier
EnergyPerSecondFlat(level) == 15

EnergyPerSecond(level) ==
    CASE level = "low" -> 5
      [] level = "medium" -> 15
      [] level = "high" -> 30

\* the exception a dict subscript raises on a key the dict does not hold
KeyError == [fault |-> "KeyError"]

calculate_task_energy(prof, task) ==
    LET energy_level == Get(prof, task.name, "medium")
    IN  IF energy_level \notin Tiers
        THEN KeyError
        ELSE [total_energy |-> EnergyPerSecond(energy_level) * task.duration,
              energy_per_second |-> EnergyPerSecond(energy_level),
              energy_level |-> energy_level,
              duration |-> task.duration]

Max(a, b) == IF a > b THEN a ELSE b

Min(a, b) == IF a < b THEN a ELSE b

\* priority * 6000:
\*   base * max(1, 30 - eps)/30 * max(0.5, 10 - d)/10 * system_factor
\* = base * max(1, 30 - eps) * max(1, 20 - 2d) * (10 * system_factor) / 6000
\* a priority without the efficiency factor
get_task_priority_no_efficiency(info, energy_data) ==
    LET base_priority == CASE energy_data.energy_level = "low" -> 3
                           [] energy_data.energy_level = "medium" -> 2
                           [] energy_data.energy_level = "high" -> 1
        duration_num == Max(1, 20 - 2 * energy_data.duration)
        battery == Get(info, "battery_percent", 100)
        on_ac == Get(info, "on_ac", TRUE)
        system_num == IF ~on_ac /\ battery < 30
                      THEN IF energy_data.energy_level = "low" THEN 15
                           ELSE IF energy_data.energy_level = "high" THEN 3
                           ELSE 10
                      ELSE 10
    IN  base_priority * 30 * duration_num * system_num

\* a priority whose duration factor has no floor: (10 - duration) / 10
get_task_priority_no_floor(info, energy_data) ==
    LET base_priority == CASE energy_data.energy_level = "low" -> 3
                           [] energy_data.energy_level = "medium" -> 2
                           [] energy_data.energy_level = "high" -> 1
        efficiency_num == Max(1, 30 - energy_data.energy_per_second)
        battery == Get(info, "battery_percent", 100)
        on_ac == Get(info, "on_ac", TRUE)
        system_num == IF ~on_ac /\ battery < 30
                      THEN IF energy_data.energy_level = "low" THEN 15
                           ELSE IF energy_data.energy_level = "high" THEN 3
                           ELSE 10
                      ELSE 10
    IN  base_priority * efficiency_num * (20 - 2 * energy_data.duration)
           * system_num

get_task_priority(info, energy_data) ==
    LET base_priority == CASE energy_data.energy_level = "low" -> 3
                           [] energy_data.energy_level = "medium" -> 2
                           [] energy_data.energy_level = "high" -> 1
        efficiency_num == Max(1, 30 - energy_data.energy_per_second)
        duration_num == Max(1, 20 - 2 * energy_data.duration)
        battery == Get(info, "battery_percent", 100)
        on_ac == Get(info, "on_ac", TRUE)
        system_num == IF ~on_ac /\ battery < 30
                      THEN IF energy_data.energy_level = "low" THEN 15
                           ELSE IF energy_data.energy_level = "high" THEN 3
                           ELSE 10
                      ELSE 10
    IN  base_priority * efficiency_num * duration_num * system_num

-----------------------------------------------------------------------------
(* list.sort: a stable sort by a key *)

\* the position list.sort gives s[i]: after every element that sorts before
\* it, and after the earlier elements that tie with it (the sort is stable)
\* before holds the pairs << j, i >> of positions whose keys compare
\* key(s[j]) < key(s[i])
\* a sort that puts the later of two tying elements first
SortRankUnstable(s, i, before) ==
    1 + Cardinality({ j \in 1..Len(s) :
                        \/ << j, i >> \in before
                        \/ << i, j >> \notin before /\ j > i })

SortRank(s, i, before) ==
    1 + Cardinality({ j \in 1..Len(s) :
                        \/ << j, i >> \in before
                        \/ << i, j >> \notin before /\ j < i })

StableSort(s, before) ==
    [r \in 1..Len(s) |->
        s[CHOOSE i \in 1..Len(s) : SortRank(s, i, before) = r]]

-----------------------------------------------------------------------------
(* EnergyBasedScheduler.create_optimal_schedule *)

SixthsPerSecond == 6

SixthsPerMinute == 360

\* a sort key that is the priority alone
PackingBeforePriorityOnly(a, b) == a.priority > b.priority

\* key = (-priority, total_energy)
PackingBefore(a, b) ==
    \/ a.priority > b.priority
    \/ /\ a.priority = b.priority
       /\ a.energy_data.total_energy < b.energy_data.total_energy

\* task_energy_data before the sort; idx is the task's position in
\* self.tasks (the identity of the task object)
TaskEnergyData(info, prof, ts) ==
    [i \in 1..Len(ts) |->
        LET energy_data == calculate_task_energy(prof, ts[i])
        IN  [task |-> ts[i], idx |-> i, energy_data |-> energy_data,
             priority |-> get_task_priority(info, energy_data)]]

\* the pairs of positions of task_energy_data the sort key orders
PackingOrder(data) ==
    { p \in (1..Len(data)) \X (1..Len(data)) :
        PackingBefore(data[p[1]], data[p[2]]) }

SortedTaskEnergyData(info, prof, ts) ==
    LET data == TaskEnergyData(info, prof, ts)
    IN  StableSort(data, PackingOrder(data))

ClosedSlot(st) ==
    [start_time |-> st.slot_start_time,
     end_time |-> st.slot_start_time + SixthsPerMinute,
     tasks |-> st.current_slot_tasks,
     total_energy |-> st.current_slot_energy]

\* a packing test that forgets what the open slot already holds
FitsIgnoringCurrentSlot(st, required_energy, capacity) ==
    required_energy <= capacity

\* a packing test that leaves the last unit of the capacity unused
FitsCurrentSlotStrictly(st, required_energy, capacity) ==
    st.current_slot_energy + required_energy < capacity

\* the task fits in the current slot
FitsCurrentSlot(st, required_energy, capacity) ==
    st.current_slot_energy + required_energy <= capacity

\* an overflow that never appends the current slot
CloseCurrentSlotNever(st) == st.time_slots

\* an overflow that appends the current slot even when it is empty
CloseCurrentSlotAlways(st) == Append(st.time_slots, ClosedSlot(st))

\* "Current slot is full": it is appended if it holds a task
CloseCurrentSlot(st) ==
    IF st.current_slot_tasks # << >>
    THEN Append(st.time_slots, ClosedSlot(st))
    ELSE st.time_slots

\* an iteration whose new slot counts the slots closed before this overflow
PackItemCountingBefore(st, item, capacity) ==
    LET energy_data == item.energy_data
        required_energy == energy_data.total_energy
        eps == energy_data.energy_per_second
    IN  IF FitsCurrentSlot(st, required_energy, capacity)
        THEN [st EXCEPT
                !.current_slot_tasks = Append(@,
                    [task |-> item.task, idx |-> item.idx,
                     energy_data |-> energy_data,
                     start_time |-> st.slot_start_time
                        + (SixthsPerSecond * st.current_slot_energy) \div eps,
                     end_time |-> st.slot_start_time
                        + (SixthsPerSecond
                           * (st.current_slot_energy + required_energy))
                          \div eps]),
                !.current_slot_energy = @ + required_energy]
        ELSE LET slots == CloseCurrentSlot(st)
                 new_start == st.slot_start_time
                              + SixthsPerMinute * Len(st.time_slots)
             IN  [time_slots |-> slots,
                  current_slot_tasks |->
                    << [task |-> item.task, idx |-> item.idx,
                        energy_data |-> energy_data,
                        start_time |-> new_start,
                        end_time |-> new_start
                           + SixthsPerSecond * energy_data.duration] >>,
                  current_slot_energy |-> required_energy,
                  slot_start_time |-> new_start]

\* one iteration of the packing loop
PackItem(st, item, capacity) ==
    LET energy_data == item.energy_data
        required_energy == energy_data.total_energy
        eps == energy_data.energy_per_second
    IN  IF FitsCurrentSlot(st, required_energy, capacity)
        THEN [st EXCEPT
                !.current_slot_tasks = Append(@,
                    [task |-> item.task, idx |-> item.idx,
                     energy_data |-> energy_data,
                     start_time |-> st.slot_start_time
                        + (SixthsPerSecond * st.current_slot_energy) \div eps,
                     end_time |-> st.slot_start_time
                        + (SixthsPerSecond
                           * (st.current_slot_energy + required_energy))
                          \div eps]),
                !.current_slot_energy = @ + required_energy]
        ELSE LET slots == CloseCurrentSlot(st)
                 new_start == st.slot_start_time
                              + SixthsPerMinute * Len(slots)
             IN  [time_slots |-> slots,
                  current_slot_tasks |->
                    << [task |-> item.task, idx |-> item.idx,
                        energy_data |-> energy_data,
                        start_time |-> new_start,
                        end_time |-> new_start
                           + SixthsPerSecond * energy_data.duration] >>,
                  current_slot_energy |-> required_energy,
                  slot_start_time |-> new_start]

RECURSIVE PackLoop(_, _, _)
PackLoop(st, items, capacity) ==
    IF items = << >> THEN st
    ELSE PackLoop(PackItem(st, Head(items), capacity), Tail(items), capacity)

\* the packing loop's variables before the loop; slot_start_time is
\* current_time, the origin of the time scale
PackingStart ==
    [time_slots |-> << >>, current_slot_tasks |-> << >>,
     current_slot_energy |-> 0, slot_start_time |-> 0]

\* a packing that returns without appending the slot still open
ForgetFinalSlot(st) == st.time_slots

\* a packing that appends the open slot even when it holds no task
AddFinalSlotAlways(st) == Append(st.time_slots, ClosedSlot(st))

\* "Add final slot"
AddFinalSlot(st) ==
    IF st.current_slot_tasks # << >>
    THEN Append(st.time_slots, ClosedSlot(st))
    ELSE st.time_slots

\* the whole call: what self.time_slots is when the method returns
create_optimal_schedule(info, prof, ts, capacity) ==
    AddFinalSlot(PackLoop(PackingStart,
                          SortedTaskEnergyData(info, prof, ts), capacity))

-----------------------------------------------------------------------------
(* The deferral policies *)

NoReason == "None"

NoResult == [form |-> "none"]

\* a reduced policy that also looks at the temperature
should_defer_task_thermal(info, energy_data) ==
    IF Get(info, "temperature", 0) > 80 /\ energy_data.energy_level = "high"
    THEN [defer |-> TRUE, reason |-> "System overheating"]
    ELSE IF ~Get(info, "on_ac", TRUE)
            /\ Get(info, "battery_percent", 100) < 30
            /\ energy_data.energy_level = "high"
    THEN [defer |-> TRUE, reason |-> "Battery low"]
    ELSE IF Get(info, "load_category", "low") = "high"
            /\ energy_data.energy_level \in {"high", "medium"}
    THEN [defer |-> TRUE, reason |-> "CPU overloaded"]
    ELSE [defer |-> FALSE, reason |-> NoReason]

\* EnergyBasedScheduler.should_defer_task: the first matching rule answers
should_defer_task(info, energy_data) ==
    LET battery == Get(info, "battery_percent", 100)
        on_ac == Get(info, "on_ac", TRUE)
        cpu_load == Get(info, "load_category", "low")
    IN  IF ~on_ac /\ battery < 30 /\ energy_data.energy_level = "high"
        THEN [defer |-> TRUE, reason |-> "Battery low"]
        ELSE IF cpu_load = "high"
                /\ energy_data.energy_level \in {"high", "medium"}
        THEN [defer |-> TRUE, reason |-> "CPU overloaded"]
        ELSE [defer |-> FALSE, reason |-> NoReason]

\* a battery rule with the 30% threshold only
BatteryReasonsOneThreshold(info, energy_level) ==
    IF ~Get(info, "on_ac", TRUE) /\ Get(info, "battery_percent", 100) < 30
       /\ energy_level = "high"
    THEN << "Battery low" >>
    ELSE << >>

\* a battery rule with the 20% threshold only
BatteryReasonsCriticalOnly(info, energy_level) ==
    IF ~Get(info, "on_ac", TRUE) /\ Get(info, "battery_percent", 100) < 20
       /\ energy_level = "high"
    THEN << "Battery critically low" >>
    ELSE << >>

BatteryReasons(info, energy_level) ==
    LET battery == Get(info, "battery_percent", 100)
        on_ac == Get(info, "on_ac", TRUE)
    IN  IF ~on_ac /\ battery < 20 /\ energy_level = "high"
        THEN << "Battery critically low" >>
        ELSE IF ~on_ac /\ battery < 30 /\ energy_level = "high"
        THEN << "Battery low" >>
        ELSE << >>

\* a CPU rule that spares the high tier
CpuReasonsMediumOnly(info, energy_level) ==
    IF Get(info, "load_category", "low") = "high" /\ energy_level = "medium"
    THEN << "CPU overloaded" >>
    ELSE << >>

CpuReasons(info, energy_level) ==
    IF Get(info, "load_category", "low") = "high"
       /\ energy_level \in {"high", "medium"}
    THEN << "CPU overloaded" >>
    ELSE << >>

\* thermal rules tested independently of each other
ThermalReasonsBoth(info, energy_level) ==
    LET temperature == Get(info, "temperature", 0)
    IN  (IF temperature > 80 /\ energy_level = "high"
         THEN << "System overheating" >> ELSE << >>)
        \o (IF temperature > 70 /\ energy_level \in {"high", "medium"}
            THEN << "System hot" >> ELSE << >>)

ThermalReasons(info, energy_level) ==
    LET temperature == Get(info, "temperature", 0)
    IN  IF temperature > 80 /\ energy_level = "high"
        THEN << "System overheating" >>
        ELSE IF temperature > 70 /\ energy_level \in {"high", "medium"}
        THEN << "System hot" >>
        ELSE << >>

\* a stress rule that holds back every tier
StressReasonsAnyTier(info, energy_level) ==
    IF Get(info, "system_stress", "low") = "high"
    THEN << "High system stress" >>
    ELSE << >>

StressReasons(info, energy_level) ==
    IF Get(info, "system_stress", "low") = "high" /\ energy_level = "high"
    THEN << "High system stress" >>
    ELSE << >>

\* EnhancedEcoScheduler.should_defer_task: every matching rule adds a reason
should_defer_task_enhanced(info, energy_level) ==
    LET defer_reasons == BatteryReasons(info, energy_level)
                         \o CpuReasons(info, energy_level)
                         \o ThermalReasons(info, energy_level)
                         \o StressReasons(info, energy_level)
    IN  [defer |-> Len(defer_reasons) > 0, reasons |-> defer_reasons]

-----------------------------------------------------------------------------
(* EnhancedEcoScheduler: adapted priority *)

\* a priority whose battery factor weighs on the high tier alone: 0.3 for a
\* high-tier task off mains power under 30%
calculate_dynamic_priority_high_tier_battery(info, prof, task) ==
    LET base_energy == Get(prof, task.name, "medium")
        base_priority == CASE base_energy = "low" -> 1
                           [] base_energy = "medium" -> 2
                           [] base_energy = "high" -> 3
                           [] OTHER -> 2
        battery_factor == IF /\ ~Get(info, "on_ac", TRUE)
                             /\ Get(info, "battery_percent", 100) < 30
                             /\ base_energy = "high"
                          THEN 3 ELSE 10
        energy_multiplier == CASE base_energy = "low" -> 10
                               [] base_energy = "medium" -> 12
                               [] base_energy = "high" -> 15
                               [] OTHER -> 10
    IN  [base_priority |-> base_priority,
         adapted_priority |-> base_priority
            * (battery_factor * 10 * 10 * 10 * energy_multiplier),
         energy_level |-> base_energy]

\* adapted_priority * 10^5: the four factors and the energy multiplier are
\* held in tenths
calculate_dynamic_priority(info, prof, task) ==
    LET base_energy == Get(prof, task.name, "medium")
        base_priority == CASE base_energy = "low" -> 1
                           [] base_energy = "medium" -> 2
                           [] base_energy = "high" -> 3
                           [] OTHER -> 2
        battery_factor == Get(info, "battery_factor", 10)
        cpu_factor == Get(info, "cpu_factor", 10)
        thermal_factor == Get(info, "thermal_factor", 10)
        power_factor == Get(info, "power_factor", 10)
        energy_multiplier == CASE base_energy = "low" -> 10
                               [] base_energy = "medium" -> 12
                               [] base_energy = "high" -> 15
                               [] OTHER -> 10
    IN  [base_priority |-> base_priority,
         adapted_priority |-> base_priority
            * (battery_factor * cpu_factor * thermal_factor * power_factor
               * energy_multiplier),
         energy_level |-> base_energy]

\* task_priorities before the sort
TaskPriorities(info, prof, ts) ==
    [i \in 1..Len(ts) |->
        [task |-> ts[i], idx |-> i,
         priority_info |-> calculate_dynamic_priority(info, prof, ts[i])]]

\* a sort that forgets reverse = True
SequentialBeforeAscending(a, b) ==
    a.priority_info.adapted_priority < b.priority_info.adapted_priority

\* key = adapted_priority, reverse = True
SequentialBefore(a, b) ==
    a.priority_info.adapted_priority > b.priority_info.adapted_priority

SortedTaskPriorities(info, prof, ts) ==
    LET data == TaskPriorities(info, prof, ts)
    IN  StableSort(data,
                   { p \in (1..Len(data)) \X (1..Len(data)) :
                       SequentialBefore(data[p[1]], data[p[2]]) })

-----------------------------------------------------------------------------
(* The simulated execution: how long a task blocks *)

SleepCapKey == "EXEC_SLEEP_CAP_SECONDS"

\* the environments of a run: the variable is unset, or set to a string
Environments ==
    { NoInfo } \cup { [EXEC_SLEEP_CAP_SECONDS |-> v] : v \in {"1", "5", "abc"} }

\* float(str): the number a string denotes, or a ValueError
FloatOf(str) ==
    CASE str = "1" -> [ok |-> TRUE, value |-> 1]
      [] str = "2" -> [ok |-> TRUE, value |-> 2]
      [] str = "5" -> [ok |-> TRUE, value |-> 5]
      [] OTHER -> [ok |-> FALSE, value |-> 0]

\* EnhancedEcoScheduler.execute_task: the argument of time.sleep
execute_task_sleep(env, task) ==
    LET parsed == FloatOf(Get(env, SleepCapKey, "2"))
        sleep_cap_seconds == IF parsed.ok THEN parsed.value ELSE 2
    IN  Min(task.duration, sleep_cap_seconds)

\* EnergyBasedScheduler.execute_schedule: the argument of time.sleep
execute_schedule_sleep(env, energy_data) == Min(energy_data.duration, 2)

-----------------------------------------------------------------------------
(* The Slot-Packing program: energy_scheduler.main *)

\* the slot entries in the order execute_schedule's two loops visit them
RECURSIVE ScheduledItems(_)
ScheduledItems(slots) ==
    IF slots = << >> THEN << >>
    ELSE Head(slots).tasks \o ScheduledItems(Tail(slots))

\* a loop that takes the same entry again
SameEntry(i) == i

\* the for loops of execute_schedule and run_scheduler move to the next entry
NextEntry(i) == i + 1

\* an execution that leaves the finished task in current_executing
KeepExecuting(executing, name) == executing

\* del self.current_executing[task['name']]
\* a removal that drops every entry but the finished task's
RemoveExecutingOthers(executing, name) == executing \cap { name }

RemoveExecuting(executing, name) == executing \ { name }

seq_unchanged == UNCHANGED << task_priorities, seq_i, executed_count,
                              deferred_count, enhanced_log, environ,
                              tasks_txt, api >>

probe_unchanged == UNCHANGED policy_result

pack_unchanged == UNCHANGED << task_energy_data, packing, pack_i >>

sleep_unchanged == UNCHANGED sleeps

\* load_system_info (which ends in adjust_energy_capacity) and
\* load_tasks_and_profiles
MainLoad ==
    /\ strategy = "slot"
    /\ pc = "start"
    /\ \E info \in SlotSnapshots, ts \in TaskLists(SlotTaskRecords, MaxTasks) :
          /\ system_info' = load_system_info(system_info, info)
          /\ energy_capacity' = adjust_energy_capacity(
                                    load_system_info(system_info, info))
          /\ tasks' = ts
    /\ profiles' = ProfilesFile
    /\ pc' = "loaded"
    /\ UNCHANGED << strategy, time_slots, exec_i, current_executing,
                    completed_tasks, deferred_tasks, calls >>
    /\ seq_unchanged /\ probe_unchanged /\ pack_unchanged /\ sleep_unchanged

\* create_optimal_schedule is entered: the energy and the priority of every
\* task are computed
CreateBegin ==
    /\ strategy = "slot"
    /\ pc = "loaded"
    /\ task_energy_data' = TaskEnergyData(system_info, profiles, tasks)
    /\ pc' = "sorting"
    /\ UNCHANGED << strategy, system_info, profiles, tasks, energy_capacity,
                    time_slots, packing, pack_i, exec_i, current_executing,
                    completed_tasks, deferred_tasks, calls >>
    /\ seq_unchanged /\ probe_unchanged /\ sleep_unchanged

\* task_energy_data.sort, and the packing loop's variables are initialised
CreateSort ==
    /\ strategy = "slot"
    /\ pc = "sorting"
    /\ task_energy_data' = StableSort(task_energy_data,
                                      PackingOrder(task_energy_data))
    /\ packing' = PackingStart
    /\ pack_i' = 0
    /\ pc' = "packing"
    /\ UNCHANGED << strategy, system_info, profiles, tasks, energy_capacity,
                    time_slots, exec_i, current_executing, completed_tasks,
                    deferred_tasks, calls >>
    /\ seq_unchanged /\ probe_unchanged /\ sleep_unchanged

\* one iteration of the packing loop
CreatePack ==
    /\ strategy = "slot"
    /\ pc = "packing"
    /\ pack_i < Len(task_energy_data)
    /\ packing' = PackItem(packing, task_energy_data[pack_i + 1],
                           energy_capacity)
    /\ pack_i' = pack_i + 1
    /\ UNCHANGED << strategy, pc, system_info, profiles, tasks,
                    energy_capacity, time_slots, task_energy_data, exec_i,
                    current_executing, completed_tasks, deferred_tasks,
                    calls >>
    /\ seq_unchanged /\ probe_unchanged /\ sleep_unchanged

\* the loop is over: the final slot is added and self.time_slots is set
CreateEnd ==
    /\ strategy = "slot"
    /\ pc = "packing"
    /\ pack_i = Len(task_energy_data)
    /\ time_slots' = AddFinalSlot(packing)
    /\ pc' = "packed"
    /\ UNCHANGED << strategy, system_info, profiles, tasks, energy_capacity,
                    task_energy_data, packing, pack_i, exec_i,
                    current_executing, completed_tasks, deferred_tasks,
                    calls >>
    /\ seq_unchanged /\ probe_unchanged /\ sleep_unchanged

\* an execute_schedule that reads monitor.txt again when it is entered
ExecBeginReloading ==
    /\ strategy = "slot"
    /\ pc = "packed"
    /\ exec_i' = 0
    /\ pc' = "executing"
    /\ \E info \in SlotSnapshots :
          /\ system_info' = load_system_info(system_info, info)
          /\ energy_capacity' =
                adjust_energy_capacity(load_system_info(system_info, info))
    /\ UNCHANGED << strategy, profiles, tasks, time_slots, current_executing,
                    completed_tasks, deferred_tasks, calls, environ,
                    tasks_txt, api, task_priorities, seq_i, executed_count,
                    deferred_count, enhanced_log, policy_result,
                    task_energy_data, packing, pack_i, sleeps >>

\* execute_schedule is entered
ExecBegin ==
    /\ strategy = "slot"
    /\ pc = "packed"
    /\ exec_i' = 0
    /\ pc' = "executing"
    /\ UNCHANGED << strategy, system_info, profiles, tasks, energy_capacity,
                    time_slots, current_executing, completed_tasks,
                    deferred_tasks, calls >>
    /\ seq_unchanged /\ probe_unchanged /\ pack_unchanged /\ sleep_unchanged

\* one slot entry is taken: it is deferred, or it starts executing
ExecDispatch ==
    /\ strategy \in {"slot", "ops"}
    /\ pc = "executing"
    /\ exec_i < Len(ScheduledItems(time_slots))
    /\ LET task_item == ScheduledItems(time_slots)[exec_i + 1]
           verdict == should_defer_task(system_info, task_item.energy_data)
       IN  IF verdict.defer
           THEN /\ deferred_tasks' = Append(deferred_tasks,
                      [task |-> task_item.task, idx |-> task_item.idx,
                       energy_data |-> task_item.energy_data,
                       defer_reason |-> verdict.reason])
                /\ exec_i' = NextEntry(exec_i)
                /\ UNCHANGED << current_executing, pc, sleeps >>
           ELSE /\ current_executing' =
                      current_executing \cup { task_item.task.name }
                /\ sleeps' = Append(sleeps,
                      execute_schedule_sleep(environ, task_item.energy_data))
                /\ pc' = "sleeping"
                /\ UNCHANGED << deferred_tasks, exec_i >>
    /\ UNCHANGED << strategy, system_info, profiles, tasks, energy_capacity,
                    time_slots, completed_tasks, calls >>
    /\ seq_unchanged /\ probe_unchanged /\ pack_unchanged

\* the dispatched entry's time.sleep returns
ExecComplete ==
    /\ strategy \in {"slot", "ops"}
    /\ pc = "sleeping"
    /\ LET task_item == ScheduledItems(time_slots)[exec_i + 1]
       IN  /\ completed_tasks' = Append(completed_tasks,
                 [task |-> task_item.task, idx |-> task_item.idx,
                  energy_data |-> task_item.energy_data])
           /\ current_executing' =
                 RemoveExecuting(current_executing, task_item.task.name)
    /\ exec_i' = NextEntry(exec_i)
    /\ pc' = "executing"
    /\ UNCHANGED << strategy, system_info, profiles, tasks, energy_capacity,
                    time_slots, deferred_tasks, calls >>
    /\ seq_unchanged /\ probe_unchanged /\ pack_unchanged /\ sleep_unchanged

\* execute_schedule returns; main builds and saves the report
ExecEnd ==
    /\ strategy = "slot"
    /\ pc = "executing"
    /\ exec_i = Len(ScheduledItems(time_slots))
    /\ pc' = "done"
    /\ UNCHANGED << strategy, system_info, profiles, tasks, energy_capacity,
                    time_slots, exec_i, current_executing, completed_tasks,
                    deferred_tasks, calls >>
    /\ seq_unchanged /\ probe_unchanged /\ pack_unchanged /\ sleep_unchanged

-----------------------------------------------------------------------------
(* EnergyBasedScheduler.generate_execution_report *)

RECURSIVE SumTotalEnergy(_)
SumTotalEnergy(records) ==
    IF records = << >> THEN 0
    ELSE Head(records).energy_data.total_energy
         + SumTotalEnergy(Tail(records))

\* a planned energy taken from the completed records
SumPlannedEnergyOfCompleted(prof, ts) == SumTotalEnergy(completed_tasks)

\* a planned energy that stops at the first task
SumPlannedEnergyOfFirst(prof, ts) ==
    IF ts = << >> THEN 0
    ELSE calculate_task_energy(prof, Head(ts)).total_energy

RECURSIVE SumPlannedEnergy(_, _)
SumPlannedEnergy(prof, ts) ==
    IF ts = << >> THEN 0
    ELSE calculate_task_energy(prof, Head(ts)).total_energy
         + SumPlannedEnergy(prof, Tail(ts))

\* the rates are kept as the fractions num / den the source divides out
generate_execution_report ==
    LET total_energy_used == SumTotalEnergy(completed_tasks)
        total_energy_planned == SumPlannedEnergy(profiles, tasks)
    IN  [total_tasks |-> Len(tasks),
         completed |-> Len(completed_tasks),
         deferred |-> Len(deferred_tasks),
         currently_executing |-> Cardinality(current_executing),
         completion_rate_num |->
            IF Len(tasks) # 0 THEN Len(completed_tasks) * 100 ELSE 0,
         completion_rate_den |-> IF Len(tasks) # 0 THEN Len(tasks) ELSE 1,
         total_energy_used |-> total_energy_used,
         total_energy_planned |-> total_energy_planned,
         energy_efficiency_num |->
            IF total_energy_planned # 0 THEN total_energy_used * 100 ELSE 0,
         energy_efficiency_den |->
            IF total_energy_planned # 0 THEN total_energy_planned ELSE 1,
         energy_capacity |-> energy_capacity]

-----------------------------------------------------------------------------
(* The Sequential program: EnhancedEcoScheduler.run_scheduler *)

slot_unchanged == UNCHANGED << energy_capacity, time_slots,
                               task_energy_data, packing, pack_i, exec_i,
                               current_executing, completed_tasks,
                               deferred_tasks, calls, environ, tasks_txt,
                               api >>

\* load_system_info, load_tasks, load_profiles; with no task the run
\* returns, otherwise the priorities are computed and sorted
SeqStart ==
    /\ strategy = "seq"
    /\ pc = "start"
    /\ \E info \in SeqSnapshots, ts \in TaskLists(SeqTaskRecords, MaxTasks) :
          /\ system_info' = load_system_info(system_info, info)
          /\ tasks' = ts
          /\ IF ts = << >>
             THEN /\ pc' = "done"
                  /\ UNCHANGED task_priorities
             ELSE /\ pc' = "running"
                  /\ task_priorities' =
                        SortedTaskPriorities(
                            load_system_info(system_info, info),
                            ProfilesFile, ts)
    /\ profiles' = ProfilesFile
    /\ UNCHANGED << strategy, seq_i, executed_count, deferred_count,
                    enhanced_log >>
    /\ slot_unchanged /\ probe_unchanged /\ sleep_unchanged

\* one iteration of the execution loop
SeqDispatch ==
    /\ strategy = "seq"
    /\ pc = "running"
    /\ seq_i < Len(task_priorities)
    /\ LET entry == task_priorities[seq_i + 1]
           verdict == should_defer_task_enhanced(system_info,
                                                 entry.priority_info.energy_level)
       IN  IF verdict.defer
           THEN /\ enhanced_log' = Append(enhanced_log,
                      [task |-> entry.task, idx |-> entry.idx,
                       action |-> "deferred",
                       defer_reasons |-> verdict.reasons])
                /\ deferred_count' = deferred_count + 1
                /\ UNCHANGED << executed_count, sleeps >>
           ELSE /\ enhanced_log' = Append(enhanced_log,
                      [task |-> entry.task, idx |-> entry.idx,
                       action |-> "executed",
                       defer_reasons |-> << >>])
                /\ sleeps' = Append(sleeps,
                                    execute_task_sleep(environ, entry.task))
                /\ executed_count' = executed_count + 1
                /\ UNCHANGED deferred_count
    /\ seq_i' = NextEntry(seq_i)
    /\ UNCHANGED << strategy, pc, system_info, profiles, tasks,
                    task_priorities >>
    /\ slot_unchanged /\ probe_unchanged

\* the loop is over: the summary is printed
SeqEnd ==
    /\ strategy = "seq"
    /\ pc = "running"
    /\ seq_i = Len(task_priorities)
    /\ pc' = "done"
    /\ UNCHANGED << strategy, system_info, profiles, tasks, task_priorities,
                    seq_i, executed_count, deferred_count, enhanced_log >>
    /\ slot_unchanged /\ probe_unchanged /\ sleep_unchanged

\* what run_scheduler prints when the loop is over: the two counts
run_summary == [executed |-> executed_count, deferred |-> deferred_count]

\* what a finished run_scheduler has printed after the system status: the
\* complaint of an empty tasks.txt, or the summary
run_scheduler_output ==
    IF tasks = << >>
    THEN [error |-> "No tasks found in tasks.txt"]
    ELSE run_summary

-----------------------------------------------------------------------------
(* The deferral policies applied to one snapshot and every tier *)

ProbeEnhanced ==
    /\ strategy = "policy"
    /\ pc = "start"
    /\ policy_result' =
          [form |-> "full",
           verdicts |-> [t \in Tiers |->
                           should_defer_task_enhanced(system_info, t)]]
    /\ pc' = "done"
    /\ UNCHANGED << strategy, system_info, profiles, tasks >>
    /\ slot_unchanged /\ seq_unchanged /\ sleep_unchanged

ProbeEnergy ==
    /\ strategy = "policy"
    /\ pc = "start"
    /\ policy_result' =
          [form |-> "reduced",
           verdicts |-> [t \in Tiers |->
                           should_defer_task(system_info,
                                             [energy_level |-> t])]]
    /\ pc' = "done"
    /\ UNCHANGED << strategy, system_info, profiles, tasks >>
    /\ slot_unchanged /\ seq_unchanged /\ sleep_unchanged

-----------------------------------------------------------------------------
(* Both schedulers on a monitor.txt that lacks some of its keys *)

\* the keys of monitor.txt the schedulers read
SystemStateFields ==
    {"battery_percent", "on_ac", "load_category", "temperature",
     "system_stress"}

\* monitor.txt with any of its keys left out
PartialSnapshots ==
    { [key \in present |-> SnapshotT(b, ac, l, s, t)[key]] :
        b \in {15, 25, 45, 100}, ac \in BOOLEAN, l \in Loads,
        s \in {"low", "high"}, t \in {60, 75, 85},
        present \in SUBSET SystemStateFields }

\* one task of each tier of profiles.json
TierTasks == [low |-> Task("sync", 2), medium |-> Task("report", 2),
              high |-> Task("backup", 2)]

\* EnergyBasedScheduler: load_system_info, then the capacity and the
\* deferral decision of a task of each tier
ProbePartialEnergy ==
    /\ strategy = "partial"
    /\ pc = "start"
    /\ energy_capacity' = adjust_energy_capacity(system_info)
    /\ policy_result' =
          [form |-> "reduced",
           verdicts |-> [t \in Tiers |->
                           should_defer_task(system_info,
                              calculate_task_energy(profiles, TierTasks[t]))]]
    /\ pc' = "done"
    /\ UNCHANGED << strategy, system_info, profiles, tasks, time_slots,
                    task_energy_data, packing, pack_i, exec_i,
                    current_executing, completed_tasks, deferred_tasks,
                    calls, environ, tasks_txt >>
    /\ seq_unchanged /\ sleep_unchanged

\* EnhancedEcoScheduler: load_system_info, then the priority and the
\* deferral decision of a task of each tier
ProbePartialEnhanced ==
    /\ strategy = "partial"
    /\ pc = "start"
    /\ policy_result' =
          [form |-> "full",
           priorities |-> [t \in Tiers |->
                             calculate_dynamic_priority(system_info, profiles,
                                                        TierTasks[t])],
           verdicts |-> [t \in Tiers |->
                           should_defer_task_enhanced(system_info,
                              calculate_dynamic_priority(system_info, profiles,
                                 TierTasks[t]).energy_level)]]
    /\ pc' = "done"
    /\ UNCHANGED << strategy, system_info, profiles, tasks >>
    /\ slot_unchanged /\ seq_unchanged /\ sleep_unchanged

PartialInit ==
    /\ strategy = "partial"
    /\ pc = "start"
    /\ system_info \in PartialSnapshots
    /\ profiles = ProfilesFile
    /\ tasks = << >>
    /\ tasks_txt = << >>
    /\ api = ApiIdle
    /\ energy_capacity = 100
    /\ time_slots = << >>
    /\ task_energy_data = << >>
    /\ packing = PackingStart
    /\ pack_i = 0
    /\ exec_i = 0
    /\ current_executing = {}
    /\ completed_tasks = << >>
    /\ deferred_tasks = << >>
    /\ task_priorities = << >>
    /\ seq_i = 0
    /\ executed_count = 0
    /\ deferred_count = 0
    /\ enhanced_log = << >>
    /\ calls = 0
    /\ sleeps = << >>
    /\ policy_result = NoResult
    /\ environ = NoInfo

PartialNext ==
    \/ ProbePartialEnergy
    \/ ProbePartialEnhanced

SpecPartial == PartialInit /\ [][PartialNext]_vars

-----------------------------------------------------------------------------
(* Reading tasks.txt, character by character *)

MaxLineLen == 3

MaxLines == 2

\* a letter, a digit, the separator, the comment mark, a blank
Chars == {"a", "7", ",", "#", " "}

Lines == UNION { [1..n -> Chars] : n \in 0..MaxLineLen }

TaskFiles == UNION { [1..n -> Lines] : n \in 0..MaxLines }

\* str.strip
RECURSIVE lstrip(_)
lstrip(str) ==
    IF str # << >> /\ Head(str) = " " THEN lstrip(Tail(str)) ELSE str

RECURSIVE rstrip(_)
rstrip(str) ==
    IF str # << >> /\ str[Len(str)] = " "
    THEN rstrip(SubSeq(str, 1, Len(str) - 1))
    ELSE str

strip(str) == rstrip(lstrip(str))

\* str.split(','): the fields between the commas
RECURSIVE split(_)
split(str) ==
    IF \A k \in 1..Len(str) : str[k] # ","
    THEN << str >>
    ELSE LET k == CHOOSE i \in 1..Len(str) :
                     /\ str[i] = ","
                     /\ \A j \in 1..(i - 1) : str[j] # ","
         IN  << SubSeq(str, 1, k - 1) >> \o split(SubSeq(str, k + 1, Len(str)))

\* str.isdigit
isdigit(str) == str # << >> /\ \A k \in 1..Len(str) : str[k] = "7"

\* int(str) of a string whose strip() is all digits
RECURSIVE int(_)
int(str) ==
    LET digits == strip(str)
    IN  IF digits = << >> THEN 0
        ELSE 10 * int(SubSeq(digits, 1, Len(digits) - 1)) + 7

\* the body of the loop over the lines: the tasks one line appends
load_line(raw) ==
    LET line == strip(raw)
    IN  IF line # << >> /\ line[1] # "#"
        THEN LET parts == split(line)
             IN  IF Len(parts) >= 2
                 THEN << [name |-> parts[1],
                          duration |-> IF isdigit(strip(parts[2]))
                                       THEN int(parts[2]) ELSE 5] >>
                 ELSE << >>
        ELSE << >>

RECURSIVE load_tasks(_)
load_tasks(file_lines) ==
    IF file_lines = << >> THEN << >>
    ELSE load_line(Head(file_lines)) \o load_tasks(Tail(file_lines))

\* EnergyBasedScheduler.load_tasks_and_profiles
LoadTasksAndProfiles ==
    /\ strategy = "load"
    /\ pc = "start"
    /\ tasks' = load_tasks(tasks_txt)
    /\ profiles' = ProfilesFile
    /\ pc' = "loaded"
    /\ UNCHANGED << strategy, system_info, policy_result >>
    /\ slot_unchanged /\ seq_unchanged /\ sleep_unchanged

\* EnhancedEcoScheduler.load_tasks
LoadTasks ==
    /\ strategy = "load"
    /\ pc = "start"
    /\ tasks' = load_tasks(tasks_txt)
    /\ pc' = "loaded"
    /\ UNCHANGED << strategy, system_info, profiles, policy_result >>
    /\ slot_unchanged /\ seq_unchanged /\ sleep_unchanged

LoadInit ==
    /\ strategy = "load"
    /\ pc = "start"
    /\ tasks_txt \in TaskFiles
    /\ api = ApiIdle
    /\ system_info = NoInfo
    /\ profiles = NoInfo
    /\ tasks = << >>
    /\ energy_capacity = 100
    /\ time_slots = << >>
    /\ task_energy_data = << >>
    /\ packing = PackingStart
    /\ pack_i = 0
    /\ exec_i = 0
    /\ current_executing = {}
    /\ completed_tasks = << >>
    /\ deferred_tasks = << >>
    /\ task_priorities = << >>
    /\ seq_i = 0
    /\ executed_count = 0
    /\ deferred_count = 0
    /\ enhanced_log = << >>
    /\ calls = 0
    /\ sleeps = << >>
    /\ policy_result = NoResult
    /\ environ = NoInfo

LoadNext ==
    \/ LoadTasksAndProfiles
    \/ LoadTasks

SpecLoad == LoadInit /\ [][LoadNext]_vars

-----------------------------------------------------------------------------
(* What each scheduler computes for one task under a hand-written tier map *)

\* a profiles.json written by hand: render has a tier outside the three,
\* cleanup has none
HandWrittenProfiles == [report |-> "medium", render |-> "extreme"]

TierTaskRecords ==
    { Task(n, d) : n \in {"report", "render", "cleanup"}, d \in {1, 10} }

\* create_optimal_schedule and execute_schedule on the task
ProbeSlotTask ==
    /\ strategy = "tiers"
    /\ pc = "start"
    /\ policy_result' =
          LET energy_data == calculate_task_energy(profiles, tasks[1])
          IN  IF energy_data = KeyError
              THEN [form |-> "slot task", fault |-> TRUE]
              ELSE [form |-> "slot task", fault |-> FALSE,
                    energy_data |-> energy_data,
                    priority |-> get_task_priority(system_info, energy_data),
                    verdict |-> should_defer_task(system_info, energy_data)]
    /\ pc' = "done"
    /\ UNCHANGED << strategy, system_info, profiles, tasks >>
    /\ slot_unchanged /\ seq_unchanged /\ sleep_unchanged

\* run_scheduler on the task
ProbeSequentialTask ==
    /\ strategy = "tiers"
    /\ pc = "start"
    /\ policy_result' =
          LET priority_info ==
                 calculate_dynamic_priority(system_info, profiles, tasks[1])
          IN  [form |-> "sequential task", fault |-> FALSE,
               priority_info |-> priority_info,
               verdict |-> should_defer_task_enhanced(
                              system_info, priority_info.energy_level)]
    /\ pc' = "done"
    /\ UNCHANGED << strategy, system_info, profiles, tasks >>
    /\ slot_unchanged /\ seq_unchanged /\ sleep_unchanged

TierInit ==
    /\ strategy = "tiers"
    /\ pc = "start"
    /\ system_info \in PolicySnapshots
    /\ profiles = HandWrittenProfiles
    /\ tasks \in { << t >> : t \in TierTaskRecords }
    /\ tasks_txt = << >>
    /\ api = ApiIdle
    /\ energy_capacity = adjust_energy_capacity(system_info)
    /\ time_slots = << >>
    /\ task_energy_data = << >>
    /\ packing = PackingStart
    /\ pack_i = 0
    /\ exec_i = 0
    /\ current_executing = {}
    /\ completed_tasks = << >>
    /\ deferred_tasks = << >>
    /\ task_priorities = << >>
    /\ seq_i = 0
    /\ executed_count = 0
    /\ deferred_count = 0
    /\ enhanced_log = << >>
    /\ calls = 0
    /\ sleeps = << >>
    /\ tasks_txt = << >>
    /\ api = ApiIdle
    /\ policy_result = NoResult
    /\ environ = NoInfo

TierNext ==
    \/ ProbeSlotTask
    \/ ProbeSequentialTask

SpecTiers == TierInit /\ [][TierNext]_vars

-----------------------------------------------------------------------------
(* One run of either program *)

\* the state after construction of the scheduler object
Constructed ==
    /\ pc = "start"
    /\ profiles = NoInfo
    /\ tasks = << >>
    /\ energy_capacity = 100
    /\ time_slots = << >>
    /\ task_energy_data = << >>
    /\ packing = PackingStart
    /\ pack_i = 0
    /\ exec_i = 0
    /\ current_executing = {}
    /\ completed_tasks = << >>
    /\ deferred_tasks = << >>
    /\ task_priorities = << >>
    /\ seq_i = 0
    /\ executed_count = 0
    /\ deferred_count = 0
    /\ enhanced_log = << >>
    /\ calls = 0
    /\ sleeps = << >>
    /\ tasks_txt = << >>
    /\ api = ApiIdle
    /\ policy_result = NoResult

\* a program is started
Started ==
    /\ strategy \in {"slot", "seq", "policy"}
    /\ Constructed
    /\ system_info \in (IF strategy = "policy" THEN PolicySnapshots
                        ELSE { NoInfo })

\* started with EXEC_SLEEP_CAP_SECONDS unset
Init ==
    /\ Started
    /\ environ = NoInfo

\* started in any environment
EnvInit ==
    /\ Started
    /\ environ \in Environments

SlotNext ==
    \/ MainLoad
    \/ CreateBegin
    \/ CreateSort
    \/ CreatePack
    \/ CreateEnd
    \/ ExecBegin
    \/ ExecDispatch
    \/ ExecComplete
    \/ ExecEnd

SeqNext ==
    \/ SeqStart
    \/ SeqDispatch
    \/ SeqEnd

ProbeNext ==
    \/ ProbeEnhanced
    \/ ProbeEnergy

Next == SlotNext \/ SeqNext \/ ProbeNext

Spec == Init /\ [][Next]_vars

SpecEnv == EnvInit /\ [][Next]_vars

-----------------------------------------------------------------------------
(* create_optimal_schedule on task lists whose priorities tie *)

\* lines of tasks.txt whose priorities tie: sync,8 with report,5 (0.5),
\* sync,10 with sync,11 (0.125), report,10 with report,12 (0.05)
TiedTaskRecords ==
    { Task("sync", 8), Task("report", 5), Task("sync", 10), Task("sync", 11),
      Task("report", 10), Task("report", 12), Task("backup", 1),
      Task("sync", 1) }

\* snapshots on both sides of the low-battery condition of the priority
TiedSnapshots ==
    { NoInfo,
      Snapshot(29, FALSE, "low", "low"),
      Snapshot(30, FALSE, "low", "low"),
      Snapshot(29, TRUE, "low", "low") }

\* load_system_info and load_tasks_and_profiles on these files
MainLoadTied ==
    /\ strategy = "slot"
    /\ pc = "start"
    /\ \E info \in TiedSnapshots, ts \in TaskLists(TiedTaskRecords, MaxTasks) :
          /\ system_info' = load_system_info(system_info, info)
          /\ energy_capacity' = adjust_energy_capacity(
                                    load_system_info(system_info, info))
          /\ tasks' = ts
    /\ profiles' = ProfilesFile
    /\ pc' = "loaded"
    /\ UNCHANGED << strategy, time_slots, exec_i, current_executing,
                    completed_tasks, deferred_tasks, calls >>
    /\ seq_unchanged /\ probe_unchanged /\ pack_unchanged /\ sleep_unchanged

TiedInit ==
    /\ strategy = "slot"
    /\ Constructed
    /\ system_info = NoInfo
    /\ environ = NoInfo

TiedNext ==
    \/ MainLoadTied
    \/ CreateBegin
    \/ CreateSort
    \/ CreatePack
    \/ CreateEnd

SpecTied == TiedInit /\ [][TiedNext]_vars

\* main on these files, through execute_schedule
TiedRunNext ==
    \/ TiedNext
    \/ ExecBegin
    \/ ExecDispatch
    \/ ExecComplete
    \/ ExecEnd

SpecTiedRun == TiedInit /\ [][TiedRunNext]_vars

-----------------------------------------------------------------------------
(* api.py: /api/run-energy-scheduler, the runs it launches in the
   background, and /api/schedule-status *)

\* what an API step leaves alone: the scheduler object of this process
api_unchanged ==
    UNCHANGED << strategy, pc, system_info, profiles, tasks, energy_capacity,
                 time_slots, task_energy_data, packing, pack_i, exec_i,
                 current_executing, completed_tasks, deferred_tasks,
                 task_priorities, seq_i, executed_count, deferred_count,
                 enhanced_log, calls, environ, tasks_txt, sleeps,
                 policy_result >>

\* the runs that hold execution_report.json open for writing
Writing == { r \in 1..MaxStarts : api.run[r] = "writing" }

\* run_energy_scheduler up to the removal of the old artifacts; a run that
\* has the removed file open keeps writing to a file without a name
ApiClear ==
    /\ strategy = "api"
    /\ api.cleared < MaxStarts
    /\ api' = [api EXCEPT
                 !.cleared = @ + 1,
                 !.request[api.cleared + 1] = "cleared",
                 !.report_file = NoFile,
                 !.run = [r \in 1..MaxStarts |->
                            IF api.run[r] = "writing" THEN "detached"
                            ELSE api.run[r]]]
    /\ api_unchanged

\* run_energy_scheduler from subprocess.Popen on: energy_scheduler.py is
\* started in the background and the request is answered
ApiLaunch(q) ==
    /\ strategy = "api"
    /\ api.request[q] = "cleared"
    /\ api' = [api EXCEPT !.request[q] = "launched", !.run[q] = "running"]
    /\ api_unchanged

\* energy_scheduler.main of run r reaches open('execution_report.json',
\* 'w'): the file is created or truncated; if another run is writing to
\* it, the two outputs mix
RunOpen(r) ==
    /\ strategy = "api"
    /\ api.run[r] = "running"
    /\ api' = [api EXCEPT
                 !.run[r] = "writing",
                 !.report_file =
                    [exists |-> TRUE,
                     content |-> IF Writing = {} THEN "partial"
                                 ELSE "garbled",
                     writer |-> r]]
    /\ api_unchanged

\* json.dump of run r is through and the file is closed: the file holds
\* the report of r, unless another run wrote to it meanwhile, when it
\* holds either the report of r or no valid JSON; a file that was removed
\* stays removed
RunClose(r) ==
    /\ strategy = "api"
    /\ api.run[r] \in {"writing", "detached"}
    /\ \E mixed \in {"garbled", "report"} :
          api' = [api EXCEPT
                    !.run[r] = "exited",
                    !.report_file =
                       IF api.run[r] = "detached" THEN @
                       ELSE IF @.content = "partial" /\ @.writer = r
                       THEN [exists |-> TRUE, content |-> "report",
                             writer |-> r]
                       ELSE [exists |-> TRUE, content |-> mixed,
                             writer |-> r]]
    /\ api_unchanged

\* get_schedule_status: no file, a report, or an exception of json.load
ApiPoll ==
    /\ strategy = "api"
    /\ api.polls < MaxPolls
    /\ api' = [api EXCEPT
                 !.polls = @ + 1,
                 !.polled =
                    IF ~api.report_file.exists
                    THEN [success |-> TRUE, has_schedule |-> FALSE,
                          writer |-> 0]
                    ELSE IF api.report_file.content = "report"
                    THEN [success |-> TRUE, has_schedule |-> TRUE,
                          writer |-> api.report_file.writer]
                    ELSE [success |-> FALSE, has_schedule |-> FALSE,
                          writer |-> 0]]
    /\ api_unchanged

ApiInit ==
    /\ strategy = "api"
    /\ Constructed
    /\ system_info = NoInfo
    /\ environ = NoInfo

ApiNext ==
    \/ ApiClear
    \/ \E q \in 1..MaxStarts : ApiLaunch(q)
    \/ \E r \in 1..MaxStarts : RunOpen(r)
    \/ \E r \in 1..MaxStarts : RunClose(r)
    \/ ApiPoll

SpecApi == ApiInit /\ [][ApiNext]_vars

-----------------------------------------------------------------------------
(* The energy capacity, computed and computed again *)

\* scheduler.load_system_info() on any monitor.txt
CapacityLoad ==
    /\ strategy = "capacity"
    /\ calls < MaxCalls
    /\ \E info \in PolicySnapshots :
          /\ system_info' = load_system_info(system_info, info)
          /\ energy_capacity' = adjust_energy_capacity(
                                    load_system_info(system_info, info))
    /\ calls' = calls + 1
    /\ pc' = "loaded"
    /\ UNCHANGED << strategy, profiles, tasks, time_slots, task_energy_data,
                    packing, pack_i, exec_i, current_executing,
                    completed_tasks, deferred_tasks, environ, tasks_txt,
                    policy_result >>
    /\ seq_unchanged /\ sleep_unchanged

\* scheduler.adjust_energy_capacity() called once more
CapacityAdjust ==
    /\ strategy = "capacity"
    /\ pc = "loaded"
    /\ calls < MaxCalls
    /\ energy_capacity' = adjust_energy_capacity(system_info)
    /\ calls' = calls + 1
    /\ UNCHANGED << strategy, pc, system_info, profiles, tasks, time_slots,
                    task_energy_data, packing, pack_i, exec_i,
                    current_executing, completed_tasks, deferred_tasks,
                    environ, tasks_txt, policy_result >>
    /\ seq_unchanged /\ sleep_unchanged

CapacityInit ==
    /\ strategy = "capacity"
    /\ Constructed
    /\ system_info = NoInfo
    /\ environ = NoInfo

CapacityNext ==
    \/ CapacityLoad
    \/ CapacityAdjust

SpecCapacity == CapacityInit /\ [][CapacityNext]_vars

-----------------------------------------------------------------------------
(* monitor.py, and the Sequential priorities on the monitor.txt it writes *)

None == [none |-> TRUE]

\* psutil.sensors_battery(): no battery, or a level and the mains state
BatteryReadings ==
    { None } \cup { [percent |-> b, power_plugged |-> ac] :
                      b \in BatteryLevels, ac \in BOOLEAN }

\* psutil.cpu_percent()
CpuReadings == {30, 90}

\* get_temperature(): degrees; 0 stands for every reading that fails the
\* test `if temp`, which are None (no sensor) and 0.0
TemperatureReadings == { 0, 55, 65, 75, 85 }

\* get_cpu_load_factors: the category of the mean of the two readings
load_category(cpu_1s, cpu_5s) ==
    IF cpu_1s + cpu_5s > 2 * 80 THEN "high"
    ELSE IF cpu_1s + cpu_5s > 2 * 50 THEN "medium"
    ELSE "low"

\* monitor.calculate_adaptation_factors, the factors in tenths
calculate_adaptation_factors(info) ==
    [battery_factor |->
        IF ~info.on_ac
        THEN IF info.battery_percent < 20 THEN 3
             ELSE IF info.battery_percent < 30 THEN 5
             ELSE IF info.battery_percent < 50 THEN 7 ELSE 10
        ELSE 10,
     cpu_factor |->
        IF info.load_category = "high" THEN 4
        ELSE IF info.load_category = "medium" THEN 7 ELSE 10,
     thermal_factor |->
        IF "temperature" \in DOMAIN info
        THEN IF info.temperature > 80 THEN 3
             ELSE IF info.temperature > 70 THEN 6
             ELSE IF info.temperature > 60 THEN 8 ELSE 10
        ELSE 10,
     power_factor |-> IF info.on_ac THEN 12 ELSE 10]

\* the stress level of overall_factor, the product of the four factors
\* (in ten-thousandths)
system_stress(factors) ==
    LET overall_factor == factors.battery_factor * factors.cpu_factor
                          * factors.thermal_factor * factors.power_factor
    IN  IF overall_factor > 8000 THEN "low"
        ELSE IF overall_factor > 5000 THEN "medium"
        ELSE "high"

\* monitor.main: the keys of the monitor.txt it writes that a scheduler
\* decides on (cpu_percent, load_factor and overall_factor are only printed)
monitor_main(batt, cpu_1s, cpu_5s, temp) ==
    LET readings ==
           [battery_percent |-> IF batt = None THEN 100 ELSE batt.percent,
            on_ac |-> IF batt = None THEN TRUE ELSE batt.power_plugged,
            load_category |-> load_category(cpu_1s, cpu_5s)]
        info == IF temp = 0 THEN readings
                ELSE [key \in DOMAIN readings \cup {"temperature"} |->
                         IF key = "temperature" THEN temp ELSE readings[key]]
        stress == system_stress(calculate_adaptation_factors(info))
    IN  [key \in DOMAIN info \cup {"system_stress"} |->
            IF key = "system_stress" THEN stress ELSE info[key]]

\* every monitor.txt the monitor writes
MonitorFiles ==
    { monitor_main(batt, cpu_1s, cpu_5s, temp) :
        batt \in BatteryReadings, cpu_1s \in CpuReadings,
        cpu_5s \in CpuReadings, temp \in TemperatureReadings }

\* run_scheduler up to the loaded profiles, after a run of the monitor
LoadMonitored ==
    /\ strategy = "monitor"
    /\ pc = "start"
    /\ \E file \in MonitorFiles :
          system_info' = load_system_info(system_info, file)
    /\ profiles' = ProfilesFile
    /\ pc' = "loaded"
    /\ UNCHANGED << strategy, tasks, policy_result >>
    /\ slot_unchanged /\ seq_unchanged /\ sleep_unchanged

\* calculate_dynamic_priority of a task of each tier
PrioritiseMonitored ==
    /\ strategy = "monitor"
    /\ pc = "loaded"
    /\ policy_result' =
          [form |-> "priority",
           priorities |-> [t \in Tiers |->
                             calculate_dynamic_priority(system_info, profiles,
                                                        TierTasks[t])]]
    /\ pc' = "done"
    /\ UNCHANGED << strategy, system_info, profiles, tasks >>
    /\ slot_unchanged /\ seq_unchanged /\ sleep_unchanged

MonitorInit ==
    /\ strategy = "monitor"
    /\ Constructed
    /\ system_info = NoInfo
    /\ environ = NoInfo

MonitorNext ==
    \/ LoadMonitored
    \/ PrioritiseMonitored

SpecMonitor == MonitorInit /\ [][MonitorNext]_vars

\* a started program keeps running: each loop iteration is followed by the
\* next statement
FairSpec == Spec /\ WF_vars(Next)

-----------------------------------------------------------------------------
(* Any sequence of method calls on one EnergyBasedScheduler object *)

OpsSnapshots == { NoInfo, Snapshot(15, FALSE, "high", "high") }

OpsTaskRecords == { Task("sync", 1), Task("backup", 2) }

CallLoadSystemInfo ==
    /\ strategy = "ops"
    /\ pc = "idle"
    /\ calls < MaxCalls
    /\ \E info \in OpsSnapshots :
          /\ system_info' = load_system_info(system_info, info)
          /\ energy_capacity' = adjust_energy_capacity(
                                    load_system_info(system_info, info))
    /\ calls' = calls + 1
    /\ UNCHANGED << strategy, pc, profiles, tasks, time_slots, exec_i,
                    current_executing, completed_tasks, deferred_tasks >>
    /\ seq_unchanged /\ probe_unchanged /\ pack_unchanged /\ sleep_unchanged

CallLoadTasksAndProfiles ==
    /\ strategy = "ops"
    /\ pc = "idle"
    /\ calls < MaxCalls
    /\ \E ts \in TaskLists(OpsTaskRecords, MaxOpsTasks) : tasks' = ts
    /\ profiles' = ProfilesFile
    /\ calls' = calls + 1
    /\ UNCHANGED << strategy, pc, system_info, energy_capacity, time_slots,
                    exec_i, current_executing, completed_tasks,
                    deferred_tasks >>
    /\ seq_unchanged /\ probe_unchanged /\ pack_unchanged /\ sleep_unchanged

CallCreateOptimalSchedule ==
    /\ strategy = "ops"
    /\ pc = "idle"
    /\ calls < MaxCalls
    /\ time_slots' = create_optimal_schedule(system_info, profiles, tasks,
                                             energy_capacity)
    /\ calls' = calls + 1
    /\ UNCHANGED << strategy, pc, system_info, profiles, tasks,
                    energy_capacity, exec_i, current_executing,
                    completed_tasks, deferred_tasks >>
    /\ seq_unchanged /\ probe_unchanged /\ pack_unchanged /\ sleep_unchanged

CallExecuteSchedule ==
    /\ strategy = "ops"
    /\ pc = "idle"
    /\ calls < MaxCalls
    /\ exec_i' = 0
    /\ pc' = "executing"
    /\ calls' = calls + 1
    /\ UNCHANGED << strategy, system_info, profiles, tasks, energy_capacity,
                    time_slots, current_executing, completed_tasks,
                    deferred_tasks >>
    /\ seq_unchanged /\ probe_unchanged /\ pack_unchanged /\ sleep_unchanged

\* execute_schedule returns to its caller
ExecReturn ==
    /\ strategy = "ops"
    /\ pc = "executing"
    /\ exec_i = Len(ScheduledItems(time_slots))
    /\ pc' = "idle"
    /\ UNCHANGED << strategy, system_info, profiles, tasks, energy_capacity,
                    time_slots, exec_i, current_executing, completed_tasks,
                    deferred_tasks, calls >>
    /\ seq_unchanged /\ probe_unchanged /\ pack_unchanged /\ sleep_unchanged

OpsInit ==
    /\ strategy = "ops"
    /\ system_info = NoInfo
    /\ profiles = NoInfo
    /\ tasks = << >>
    /\ energy_capacity = 100
    /\ time_slots = << >>
    /\ task_energy_data = << >>
    /\ packing = PackingStart
    /\ pack_i = 0
    /\ exec_i = 0
    /\ current_executing = {}
    /\ completed_tasks = << >>
    /\ deferred_tasks = << >>
    /\ task_priorities = << >>
    /\ seq_i = 0
    /\ executed_count = 0
    /\ deferred_count = 0
    /\ enhanced_log = << >>
    /\ calls = 0
    /\ sleeps = << >>
    /\ tasks_txt = << >>
    /\ api = ApiIdle
    /\ policy_result = NoResult
    /\ pc = "idle"
    /\ environ = NoInfo

OpsNext ==
    \/ CallLoadSystemInfo
    \/ CallLoadTasksAndProfiles
    \/ CallCreateOptimalSchedule
    \/ CallExecuteSchedule
    \/ ExecDispatch
    \/ ExecComplete
    \/ ExecReturn

SpecOps == OpsInit /\ [][OpsNext]_vars

-----------------------------------------------------------------------------
(* Properties of the Slot-Packing timetable *)

\* the timetable of the run has been produced
Packed ==
    /\ strategy = "slot"
    /\ pc \notin {"start", "loaded", "sorting", "packing"}

\* the places <<slot, entry>> of the timetable
SlotPlaces ==
    UNION { { << s, k >> : k \in 1..Len(time_slots[s].tasks) } :
            s \in 1..Len(time_slots) }

PlacedItem(p) == time_slots[p[1]].tasks[p[2]]

\* C1: every input task occupies exactly one place of the timetable, every
\* place holds an input task, and a non-empty task list gives at least one
\* slot.
C1_EveryTaskInExactlyOneSlot ==
    Packed =>
        /\ \A i \in 1..Len(tasks) :
              Cardinality({ p \in SlotPlaces : PlacedItem(p).idx = i }) = 1
        /\ \A p \in SlotPlaces :
              /\ PlacedItem(p).idx \in 1..Len(tasks)
              /\ PlacedItem(p).task = tasks[PlacedItem(p).idx]
        /\ (tasks # << >> => Len(time_slots) >= 1)

\* three tasks were packed into more than one slot
C1_Witness ==
    /\ Packed
    /\ Len(tasks) = 3
    /\ Len(time_slots) >= 2
    /\ Cardinality(SlotPlaces) = 3

\* C2: a slot's recorded energy is within the capacity unless the slot holds
\* a task that alone exceeds the capacity, and such a task is alone in its
\* slot.
C2_SlotEnergyWithinCapacity ==
    Packed =>
        \A s \in 1..Len(time_slots) :
            LET slot == time_slots[s]
                Oversized(k) ==
                    slot.tasks[k].energy_data.total_energy > energy_capacity
            IN  /\ \/ slot.total_energy <= energy_capacity
                   \/ \E k \in 1..Len(slot.tasks) : Oversized(k)
                /\ \A k \in 1..Len(slot.tasks) :
                      Oversized(k) => Len(slot.tasks) = 1

\* an oversized task sits alone between a filled slot and a slot that opens
\* with a zero-energy task
C2_Witness ==
    /\ Packed
    /\ Len(time_slots) = 3
    /\ Len(time_slots[1].tasks) >= 1
    /\ time_slots[2].total_energy > energy_capacity
    /\ Len(time_slots[2].tasks) = 1
    /\ time_slots[3].tasks[1].energy_data.total_energy = 0

-----------------------------------------------------------------------------
(* Properties of the deferral policies *)

Battery == Get(system_info, "battery_percent", 100)

OnBattery == ~Get(system_info, "on_ac", TRUE)

Load == Get(system_info, "load_category", "low")

Temperature == Get(system_info, "temperature", 0)

Stress == Get(system_info, "system_stress", "low")

ReasonOrder ==
    << "Battery critically low", "Battery low", "CPU overloaded",
       "System overheating", "System hot", "High system stress" >>

ReasonNames == { ReasonOrder[i] : i \in 1..Len(ReasonOrder) }

ReasonIndex(r) == CHOOSE i \in 1..Len(ReasonOrder) : ReasonOrder[i] = r

\* when the claim expects reason r for a task of tier t
ReasonExpected(r, t) ==
    CASE r = "Battery critically low" ->
            OnBattery /\ Battery < 20 /\ t = "high"
      [] r = "Battery low" ->
            OnBattery /\ 20 <= Battery /\ Battery < 30 /\ t = "high"
      [] r = "CPU overloaded" ->
            Load = "high" /\ t \in {"medium", "high"}
      [] r = "System overheating" ->
            Temperature > 80 /\ t = "high"
      [] r = "System hot" ->
            /\ Temperature > 70
            /\ t \in {"medium", "high"}
            /\ ~(Temperature > 80 /\ t = "high")
      [] r = "High system stress" ->
            Stress = "high" /\ t = "high"

SeqToSet(q) == { q[i] : i \in 1..Len(q) }

\* C3: the full policy returns, for every tier and snapshot, exactly the
\* reasons whose rule matches, each once and in rule order, and defers iff
\* there is a reason; no list holds two battery or two thermal reasons.
C3_FullPolicyReasons ==
    policy_result.form = "full" =>
        \A t \in Tiers :
            LET verdict == policy_result.verdicts[t]
                given == SeqToSet(verdict.reasons)
            IN  /\ given \subseteq ReasonNames
                /\ \A r \in ReasonNames : r \in given <=> ReasonExpected(r, t)
                /\ \A i, j \in 1..Len(verdict.reasons) :
                      i < j => ReasonIndex(verdict.reasons[i])
                               < ReasonIndex(verdict.reasons[j])
                /\ verdict.defer = (verdict.reasons # << >>)
                /\ ~({"Battery critically low", "Battery low"}
                        \subseteq given)
                /\ ~({"System overheating", "System hot"} \subseteq given)

\* four rules match a high-tier task at once, and the medium tier gets the
\* lesser thermal reason
C3_Witness ==
    /\ policy_result.form = "full"
    /\ policy_result.verdicts["high"].reasons =
          << "Battery critically low", "CPU overloaded",
             "System overheating", "High system stress" >>
    /\ policy_result.verdicts["medium"].reasons =
          << "CPU overloaded", "System hot" >>
    /\ ~policy_result.verdicts["low"].defer

TierOfRecord(rec) == rec.energy_data.energy_level

TierOfLogEntry(e) == Get(profiles, e.task.name, "medium")

\* C7: in both policy forms, whenever the medium tier is deferred under a
\* snapshot the high tier is deferred under it too; no run defers a
\* medium-tier task and executes a high-tier one.
C7_DeferralMonotonicInTier ==
    /\ policy_result.form \in {"full", "reduced"} =>
          (policy_result.verdicts["medium"].defer
              => policy_result.verdicts["high"].defer)
    /\ ~ \E d \in 1..Len(deferred_tasks), c \in 1..Len(completed_tasks) :
            /\ TierOfRecord(deferred_tasks[d]) = "medium"
            /\ TierOfRecord(completed_tasks[c]) = "high"
    /\ ~ \E d, c \in 1..Len(enhanced_log) :
            /\ enhanced_log[d].action = "deferred"
            /\ TierOfLogEntry(enhanced_log[d]) = "medium"
            /\ enhanced_log[c].action = "executed"
            /\ TierOfLogEntry(enhanced_log[c]) = "high"

\* the full policy defers the medium tier for heat alone, and the high tier
\* with it
C7_Witness ==
    /\ policy_result.form = "full"
    /\ Load # "high"
    /\ policy_result.verdicts["medium"].defer
    /\ policy_result.verdicts["high"].defer

-----------------------------------------------------------------------------
(* Properties of a run *)

\* how many records of a list are about the task at position i of self.tasks
Occurrences(records, i) ==
    Cardinality({ k \in 1..Len(records) : records[k].idx = i })

Completed(i) == Occurrences(completed_tasks, i)

Deferred(i) == Occurrences(deferred_tasks, i)

LogActions(i, action) ==
    Cardinality({ k \in 1..Len(enhanced_log) :
                    /\ enhanced_log[k].idx = i
                    /\ enhanced_log[k].action = action })

\* the outcomes recorded so far are those of the entries dispatched so far,
\* one outcome per entry; a finished run has dispatched every task
OutcomesSoFar ==
    /\ strategy = "slot" =>
          /\ Len(completed_tasks) + Len(deferred_tasks) = exec_i
          /\ \A i \in 1..Len(tasks) : Completed(i) + Deferred(i) <= 1
          /\ \A k \in 1..exec_i :
                LET i == ScheduledItems(time_slots)[k].idx
                IN  Completed(i) + Deferred(i) = 1
          /\ pc = "done" =>
                \A i \in 1..Len(tasks) : Completed(i) + Deferred(i) = 1
    /\ strategy = "seq" =>
          /\ Len(enhanced_log) = seq_i
          /\ executed_count + deferred_count = seq_i
          /\ \A i \in 1..Len(tasks) :
                LogActions(i, "executed") + LogActions(i, "deferred") <= 1
          /\ \A k \in 1..seq_i :
                LET i == task_priorities[k].idx
                IN  LogActions(i, "executed") + LogActions(i, "deferred") = 1
          /\ pc = "done" =>
                \A i \in 1..Len(tasks) :
                    LogActions(i, "executed") + LogActions(i, "deferred") = 1

\* a recorded outcome is final: a deferred task stays deferred and is not
\* executed, a completed task stays completed and is not deferred
OutcomesFinal ==
    \A i \in 1..Len(tasks) :
        /\ Deferred(i) = 1 => Deferred(i)' = 1 /\ Completed(i)' = 0
        /\ Completed(i) = 1 => Completed(i)' = 1 /\ Deferred(i)' = 0
        /\ LogActions(i, "deferred") = 1 =>
              LogActions(i, "deferred")' = 1 /\ LogActions(i, "executed")' = 0
        /\ LogActions(i, "executed") = 1 =>
              LogActions(i, "executed")' = 1 /\ LogActions(i, "deferred")' = 0

\* C4: in a run of either strategy every task is dispatched once and gets
\* exactly one outcome, completed or deferred, never both and never twice,
\* and a deferred task is not executed later in the run.
C4_OneOutcomePerTask == [](OutcomesSoFar) /\ [][OutcomesFinal]_vars

\* a finished Slot-Packing run of three tasks with both outcomes
C4_Witness ==
    /\ strategy = "slot"
    /\ pc = "done"
    /\ Len(tasks) = 3
    /\ Len(deferred_tasks) = 1
    /\ Len(completed_tasks) = 2

\* C5: whenever a report can be generated, completionRate plus
\* deferred / total * 100 is at most 100, and equals 100 only when nothing
\* is currently executing.
C5_RatesWithinHundred ==
    LET report == generate_execution_report
    IN  report.total_tasks # 0 =>
          /\ report.completion_rate_num * report.total_tasks
               + report.deferred * 100 * report.completion_rate_den
             <= 100 * report.total_tasks * report.completion_rate_den
          /\ (report.completion_rate_num * report.total_tasks
                + report.deferred * 100 * report.completion_rate_den
              = 100 * report.total_tasks * report.completion_rate_den)
             => report.currently_executing = 0

\* the run is over
Finished == pc = "done"

\* every task has its outcome and nothing is executing
AllSettled ==
    /\ current_executing = {}
    /\ strategy = "slot" =>
          /\ exec_i = Len(tasks)
          /\ Len(time_slots) <= Len(tasks)
          /\ \A i \in 1..Len(tasks) : Completed(i) + Deferred(i) = 1
    /\ strategy = "seq" =>
          /\ tasks # << >> => seq_i = Len(tasks)
          /\ \A i \in 1..Len(tasks) :
                LogActions(i, "executed") + LogActions(i, "deferred") = 1

\* C6: every run terminates, with at most one slot per task, every task
\* completed or deferred and nothing left executing.
C6_RunTerminates == <>Finished /\ [](Finished => AllSettled)

\* a finished Slot-Packing run whose three tasks took three slots
C6_Witness ==
    /\ strategy = "slot"
    /\ Finished
    /\ Len(tasks) = 3
    /\ Len(time_slots) = 3
    /\ Len(completed_tasks) >= 1
    /\ Len(deferred_tasks) >= 1

-----------------------------------------------------------------------------
(* Properties of the Sequential strategy *)

AdaptedPriority(k) == task_priorities[k].priority_info.adapted_priority

\* C8: the Sequential strategy orders the tasks by descending adapted
\* priority, computed from the run's snapshot, equal priorities in input
\* order, and dispatches them one by one in that order.
C8_SequentialDispatchOrder ==
    (strategy = "seq" /\ pc \in {"running", "done"} /\ tasks # << >>) =>
        /\ Len(task_priorities) = Len(tasks)
        /\ \A i \in 1..Len(tasks) :
              Cardinality({ k \in 1..Len(task_priorities) :
                              task_priorities[k].idx = i }) = 1
        /\ \A k \in 1..Len(task_priorities) :
              /\ task_priorities[k].task = tasks[task_priorities[k].idx]
              /\ task_priorities[k].priority_info =
                    calculate_dynamic_priority(system_info, profiles,
                                               task_priorities[k].task)
        /\ \A j, k \in 1..Len(task_priorities) :
              j < k =>
                 \/ AdaptedPriority(j) > AdaptedPriority(k)
                 \/ /\ AdaptedPriority(j) = AdaptedPriority(k)
                    /\ task_priorities[j].idx < task_priorities[k].idx
        /\ Len(enhanced_log) = seq_i
        /\ \A k \in 1..Len(enhanced_log) :
              enhanced_log[k].idx = task_priorities[k].idx

\* a finished run whose input order differs from its dispatch order and
\* holds two tasks of equal priority
C8_Witness ==
    /\ strategy = "seq"
    /\ pc = "done"
    /\ Len(tasks) = 3
    /\ task_priorities[1].idx = 3
    /\ AdaptedPriority(2) = AdaptedPriority(3)
    /\ Len(enhanced_log) = 3

BackupSyncScenario ==
    /\ strategy = "seq"
    /\ tasks = << Task("backup", 60), Task("sync", 10) >>
    /\ system_info = Snapshot(15, FALSE, "low", "low")

\* C9: a task of a Sequential run is executed iff no rule of the policy
\* matches it; in the backup/sync scenario backup is deferred for
\* 'Battery critically low', sync is executed, and the run reports 1
\* completed, 1 deferred and a completion rate of 50.
C9_ExecutedIffNotDeferred ==
    /\ strategy = "seq" =>
          /\ \A k \in 1..Len(enhanced_log) :
                LET e == enhanced_log[k]
                IN  /\ e.action \in {"executed", "deferred"}
                    /\ e.action = "executed" <=>
                          ~ \E r \in ReasonNames :
                               ReasonExpected(r, TierOfLogEntry(e))
          /\ executed_count =
                Cardinality({ k \in 1..Len(enhanced_log) :
                                enhanced_log[k].action = "executed" })
          /\ deferred_count =
                Cardinality({ k \in 1..Len(enhanced_log) :
                                enhanced_log[k].action = "deferred" })
    /\ (BackupSyncScenario /\ pc = "done") =>
          /\ Len(enhanced_log) = 2
          /\ \E k \in 1..2 :
                /\ enhanced_log[k].task.name = "backup"
                /\ enhanced_log[k].action = "deferred"
                /\ "Battery critically low"
                      \in SeqToSet(enhanced_log[k].defer_reasons)
          /\ \E k \in 1..2 :
                /\ enhanced_log[k].task.name = "sync"
                /\ enhanced_log[k].action = "executed"
          /\ run_summary.executed = 1
          /\ run_summary.deferred = 1
          /\ "completion_rate" \in DOMAIN run_summary
          /\ run_summary.completion_rate = 50

\* the rules of the policy in force that match a task of tier t
MatchingReasons(t) ==
    IF strategy = "seq"
    THEN { r \in ReasonNames : ReasonExpected(r, t) }
    ELSE { r \in {"Battery low", "CPU overloaded"} :
             \/ r = "Battery low" /\ OnBattery /\ Battery < 30 /\ t = "high"
             \/ r = "CPU overloaded" /\ ReasonExpected(r, t) }

\* C10: in either strategy the deferral record of a task lists every rule
\* that matches the task.
C10_AllMatchingReasonsRecorded ==
    /\ \A k \in 1..Len(deferred_tasks) :
          MatchingReasons(TierOfRecord(deferred_tasks[k]))
             \subseteq { deferred_tasks[k].defer_reason }
    /\ \A k \in 1..Len(enhanced_log) :
          enhanced_log[k].action = "deferred" =>
             MatchingReasons(TierOfLogEntry(enhanced_log[k]))
                \subseteq SeqToSet(enhanced_log[k].defer_reasons)

-----------------------------------------------------------------------------
(* Properties of the Slot-Packing executor *)

\* the two rules of the reduced policy, for a task of tier t
ReducedRules(t) ==
    \/ OnBattery /\ Battery < 30 /\ t = "high"
    \/ Load = "high" /\ t \in {"medium", "high"}

\* C11: the Slot-Packing executor defers a task iff it is a high-tier task
\* off AC with battery < 30, or a medium- or high-tier task under high
\* load; the temperature and the system stress play no part.
C11_ReducedPolicyTwoRules ==
    /\ policy_result.form = "reduced" =>
          \A t \in Tiers : policy_result.verdicts[t].defer <=> ReducedRules(t)
    /\ strategy = "slot" =>
          /\ \A k \in 1..Len(deferred_tasks) :
                ReducedRules(TierOfRecord(deferred_tasks[k]))
          /\ \A k \in 1..Len(completed_tasks) :
                ~ReducedRules(TierOfRecord(completed_tasks[k]))
          /\ \A n \in current_executing :
                ~ReducedRules(Get(profiles, n, "medium"))

\* the reduced policy lets a high-tier task run on a hot, stressed system
C11_Witness ==
    /\ policy_result.form = "reduced"
    /\ Temperature = 81
    /\ Stress = "high"
    /\ ~policy_result.verdicts["high"].defer

\* the sleep cap of the run: the override when one is supplied and parses,
\* 2 seconds otherwise
SleepCap ==
    IF SleepCapKey \in DOMAIN environ /\ FloatOf(environ[SleepCapKey]).ok
    THEN FloatOf(environ[SleepCapKey]).value
    ELSE 2

ExecutedLog == SelectSeq(enhanced_log, LAMBDA e : e.action = "executed")

\* the k-th simulated execution of a Sequential run blocks for
\* min(duration, sleep cap)
SequentialSleeps ==
    strategy = "seq" =>
        /\ Len(sleeps) = Len(ExecutedLog)
        /\ \A k \in 1..Len(sleeps) :
              sleeps[k] = Min(ExecutedLog[k].task.duration, SleepCap)

\* the same for the k-th simulated execution of a Slot-Packing run
SlotSleeps ==
    strategy = "slot" =>
        /\ Len(sleeps) = Len(completed_tasks)
                          + (IF pc = "sleeping" THEN 1 ELSE 0)
        /\ \A k \in 1..Len(completed_tasks) :
              sleeps[k] = Min(completed_tasks[k].task.duration, SleepCap)

\* C12: in both strategies every executed task blocks for
\* min(duration, sleepCap), sleepCap being the run's override when one is
\* supplied and parses, and 2 seconds otherwise.
C12_SleepIsMinDurationCap == SequentialSleeps /\ SlotSleeps

-----------------------------------------------------------------------------
(* Properties of the packing loop *)

TotalEnergyOf(task) == calculate_task_energy(profiles, task).total_energy

\* the task list is a single task that needs more than the capacity
SingleOversizedTask ==
    /\ Packed
    /\ Len(tasks) = 1
    /\ TotalEnergyOf(tasks[1]) > energy_capacity

\* C13: packing a single task whose total energy exceeds the capacity
\* gives exactly one slot, which holds exactly that task.
C13_SingleOversizedTaskOneSlot ==
    SingleOversizedTask =>
        /\ Len(time_slots) = 1
        /\ Len(time_slots[1].tasks) = 1
        /\ time_slots[1].tasks[1].task = tasks[1]
        /\ time_slots[1].tasks[1].idx = 1

\* a 150-unit task packed under capacity 20
C13_Witness ==
    /\ SingleOversizedTask
    /\ energy_capacity = 20
    /\ TotalEnergyOf(tasks[1]) = 150
    /\ Len(time_slots) = 1

\* the packing loop is about to take an item that does not fit
Overflowing ==
    /\ pc = "packing"
    /\ pack_i < Len(task_energy_data)
    /\ packing.current_slot_energy
          + task_energy_data[pack_i + 1].energy_data.total_energy
       > energy_capacity

\* after the step a new slot is open, seeded with the overflowing item
NewSlotSeeded ==
    /\ pack_i' = pack_i + 1
    /\ Len(packing'.current_slot_tasks) = 1
    /\ packing'.current_slot_tasks[1].task = task_energy_data[pack_i + 1].task
    /\ packing'.current_slot_tasks[1].idx = task_energy_data[pack_i + 1].idx
    /\ packing'.current_slot_energy =
          task_energy_data[pack_i + 1].energy_data.total_energy

\* the current slot has been appended to the slot list
CurrentSlotAppended ==
    packing'.time_slots = Append(packing.time_slots, ClosedSlot(packing))

\* C14 as stated: at an overflow the current slot is appended to the slot
\* list, even if it holds no task or one task, and a new slot seeded with
\* the overflowing task is opened.
C14_OverflowAlwaysAppends ==
    [][Overflowing => CurrentSlotAppended /\ NewSlotSeeded]_vars

\* C14: at an overflow the current slot is appended to the slot list if it
\* holds at least one task (an empty current slot is not appended), and a
\* new slot seeded with the overflowing task is opened.
C14_OverflowAppendsNonEmpty ==
    [][Overflowing =>
         /\ IF packing.current_slot_tasks # << >>
            THEN CurrentSlotAppended
            ELSE packing'.time_slots = packing.time_slots
         /\ NewSlotSeeded]_vars

\* two overflows have happened: the first on the empty slot, the second
\* closed a slot of one task
C14_Witness ==
    /\ pc = "packing"
    /\ pack_i = 2
    /\ Len(packing.time_slots) = 1
    /\ Len(packing.time_slots[1].tasks) = 1
    /\ packing.time_slots[1].total_energy > energy_capacity
    /\ Len(packing.current_slot_tasks) = 1

-----------------------------------------------------------------------------
(* Properties of the execution report *)

\* f[1] + ... + f[n]
RECURSIVE SumUpTo(_, _)
SumUpTo(f, n) == IF n = 0 THEN 0 ELSE f[n] + SumUpTo(f, n - 1)

\* energy units per second of a tier
TierRate(t) ==
    CASE t = "low" -> 5
      [] t = "medium" -> 15
      [] t = "high" -> 30

TierOfTask(task) == Get(profiles, task.name, "medium")

\* the total energy of the completed records
EnergyOfCompleted ==
    SumUpTo([k \in 1..Len(completed_tasks) |->
                TierRate(TierOfTask(completed_tasks[k].task))
                   * completed_tasks[k].task.duration],
            Len(completed_tasks))

\* the total energy of all tasks
EnergyOfTasks ==
    SumUpTo([i \in 1..Len(tasks) |->
                TierRate(TierOfTask(tasks[i])) * tasks[i].duration],
            Len(tasks))

\* C15: in every report total is the number of tasks, completed, deferred
\* and executing are the sizes of the three collections, completionRate is
\* completed / total * 100 (0 without tasks), totalEnergyUsed sums the
\* completed records, totalEnergyPlanned sums all tasks whatever their
\* outcome, energyEfficiency is used / planned * 100 (0 when planned is 0).
C15_ReportFields ==
    LET report == generate_execution_report
    IN  /\ report.total_tasks = Len(tasks)
        /\ report.completed = Len(completed_tasks)
        /\ report.deferred = Len(deferred_tasks)
        /\ report.currently_executing = Cardinality(current_executing)
        /\ IF Len(tasks) = 0
           THEN report.completion_rate_num = 0
           ELSE report.completion_rate_num * Len(tasks)
                   = Len(completed_tasks) * 100 * report.completion_rate_den
        /\ report.completion_rate_den > 0
        /\ report.total_energy_used = EnergyOfCompleted
        /\ report.total_energy_planned = EnergyOfTasks
        /\ IF EnergyOfTasks = 0
           THEN report.energy_efficiency_num = 0
           ELSE report.energy_efficiency_num * EnergyOfTasks
                   = EnergyOfCompleted * 100 * report.energy_efficiency_den
        /\ report.energy_efficiency_den > 0

\* the report of a finished run of three tasks, one of them deferred
C15_Witness ==
    LET report == generate_execution_report
    IN  /\ strategy = "slot"
        /\ pc = "done"
        /\ report.total_tasks = 3
        /\ report.completed = 2
        /\ report.deferred = 1
        /\ report.total_energy_used > 0
        /\ report.total_energy_used < report.total_energy_planned

\* a finished run without tasks
ZeroTaskRun == Finished /\ tasks = << >>

\* nothing was executed, deferred or packed
NothingDone ==
    /\ completed_tasks = << >>
    /\ deferred_tasks = << >>
    /\ current_executing = {}
    /\ enhanced_log = << >>
    /\ sleeps = << >>
    /\ time_slots = << >>

\* the report of the Slot-Packing run is all zero
ZeroReport ==
    LET report == generate_execution_report
    IN  /\ report.total_tasks = 0
        /\ report.completed = 0
        /\ report.deferred = 0
        /\ report.completion_rate_num = 0
        /\ report.energy_efficiency_num = 0

\* the output of the Sequential run is an all-zero report
ZeroSequentialReport ==
    LET report == run_scheduler_output
    IN  /\ {"total", "completed", "deferred", "completion_rate",
            "energy_efficiency"} \subseteq DOMAIN report
        /\ report.total = 0
        /\ report.completed = 0
        /\ report.deferred = 0
        /\ report.completion_rate = 0
        /\ report.energy_efficiency = 0

\* C16: a run without tasks, in either strategy, ends having executed and
\* deferred nothing and produced no slot, and its report has total,
\* completed, deferred, completionRate and energyEfficiency all 0.
C16_ZeroTaskRun ==
    ZeroTaskRun =>
        /\ NothingDone
        /\ strategy = "slot" => ZeroReport
        /\ strategy = "seq" => ZeroSequentialReport

-----------------------------------------------------------------------------
(* Properties of the tier map *)

\* the task has no tier, or a tier outside low, medium, high
UnknownTier(task) ==
    \/ task.name \notin DOMAIN profiles
    \/ profiles[task.name] \notin Tiers

\* C17: a task whose tier is unknown is treated as a medium-tier task by
\* both strategies, without a fault: energy rate 15, the medium base
\* priority 2, the medium energy multiplier 1.2 and the medium deferral
\* rules.
C17_UnknownTierIsMedium ==
    (strategy = "tiers" /\ pc = "done" /\ UnknownTier(tasks[1])) =>
        /\ ~policy_result.fault
        /\ policy_result.form = "slot task" =>
              /\ policy_result.energy_data.energy_per_second = 15
              /\ policy_result.energy_data.total_energy
                    = 15 * tasks[1].duration
              /\ policy_result.verdict.defer <=> ReducedRules("medium")
        /\ policy_result.form = "sequential task" =>
              /\ policy_result.priority_info.base_priority = 2
              /\ policy_result.priority_info.adapted_priority
                    = 2 * 10 * 10 * 10 * 10 * 12
              /\ policy_result.verdict.defer <=>
                    \E r \in ReasonNames : ReasonExpected(r, "medium")

-----------------------------------------------------------------------------
(* Properties of the task list loader *)

\* the line is blank or begins with the comment mark
Ignored(raw) == strip(raw) = << >> \/ strip(raw)[1] = "#"

\* the lines of tasks.txt that are records, in file order
RecordLines == SelectSeq(tasks_txt, LAMBDA raw : ~Ignored(raw))

\* the text of a record before its first comma
NameField(raw) == split(strip(raw))[1]

\* the duration a record states: its second field when that is a number,
\* and 5 when the field is missing or is not a number
DurationField(raw) ==
    LET parts == split(strip(raw))
    IN  IF Len(parts) >= 2 /\ isdigit(strip(parts[2]))
        THEN int(parts[2])
        ELSE 5

\* C18: the loaded task list has one task per record of tasks.txt, in file
\* order, blank lines and lines beginning with '#' left out; a record
\* whose duration is missing or not a number gives a task of duration 5.
C18_LoadKeepsEveryRecord ==
    (strategy = "load" /\ pc = "loaded") =>
        /\ Len(tasks) = Len(RecordLines)
        /\ \A k \in 1..Len(tasks) :
              /\ tasks[k].name = NameField(RecordLines[k])
              /\ tasks[k].duration = DurationField(RecordLines[k])

-----------------------------------------------------------------------------
(* Properties of a snapshot with missing fields *)

\* the value each field stands for when the snapshot lacks it: a full
\* battery, mains power, a low load, a temperature that is not hot, a low
\* stress
FieldDefaults ==
    [battery_percent |-> 100, on_ac |-> TRUE, load_category |-> "low",
     temperature |-> 0, system_stress |-> "low"]

\* the snapshot with every missing field written out
Filled(info) ==
    [key \in SystemStateFields |->
        IF key \in DOMAIN info THEN info[key] ELSE FieldDefaults[key]]

\* the priority of a tier when every factor is 1.0, times 10^5
UnitFactorPriority(t) ==
    CASE t = "low" -> 1 * 10 * 10000
      [] t = "medium" -> 2 * 12 * 10000
      [] t = "high" -> 3 * 15 * 10000

-----------------------------------------------------------------------------
(* What executing a run leaves alone *)

\* the program is inside execute_schedule, or inside the execution loop of
\* run_scheduler
ExecutionPhase ==
    \/ strategy = "slot" /\ pc \in {"packed", "executing", "sleeping"}
    \/ strategy = "seq" /\ pc = "running"

\* every decision recorded so far is the one the policy gives on info
DecisionsMatch(info, deferred, completed, log) ==
    /\ \A k \in 1..Len(deferred) :
          should_defer_task(info, deferred[k].energy_data).defer
    /\ \A k \in 1..Len(completed) :
          ~should_defer_task(info, completed[k].energy_data).defer
    /\ \A k \in 1..Len(log) :
          (log[k].action = "deferred") <=>
             should_defer_task_enhanced(info,
                Get(profiles, log[k].task.name, "medium")).defer

\* C20: a step of the execution of a run changes none of the snapshot, the
\* energy capacity, the task list and the packed slots, and after it every
\* decision the run has recorded is the policy's answer on that snapshot.
C20_ExecutionFrame ==
    [][ExecutionPhase =>
          /\ UNCHANGED << system_info, energy_capacity, tasks, time_slots >>
          /\ DecisionsMatch(system_info, deferred_tasks', completed_tasks',
                            enhanced_log')]_vars

\* a Slot-Packing run of several slots has finished with a deferred and a
\* completed task
C20_Witness ==
    /\ strategy = "slot"
    /\ pc = "done"
    /\ Len(time_slots) >= 2
    /\ deferred_tasks # << >>
    /\ completed_tasks # << >>

-----------------------------------------------------------------------------
(* The order Slot-Packing packs the tasks in *)

\* basePriority * max(1, 30 - energyPerSecond)/30 * max(0.5, 10 - duration)/10
\* * systemFactor, times 6000: the three divisors are 30, 20 and 10
StaticPriority(info, tier, duration) ==
    LET basePriority == CASE tier = "low" -> 3
                          [] tier = "medium" -> 2
                          [] tier = "high" -> 1
        energyPerSecond == CASE tier = "low" -> 5
                             [] tier = "medium" -> 15
                             [] tier = "high" -> 30
        efficiency30 == IF 30 - energyPerSecond > 1
                        THEN 30 - energyPerSecond ELSE 1
        duration20 == IF 2 * (10 - duration) > 1
                      THEN 2 * (10 - duration) ELSE 1
        lowBattery == /\ "on_ac" \in DOMAIN info
                      /\ ~info.on_ac
                      /\ "battery_percent" \in DOMAIN info
                      /\ info.battery_percent < 30
        systemFactor10 == IF lowBattery /\ tier = "low" THEN 15
                          ELSE IF lowBattery /\ tier = "high" THEN 3
                          ELSE 10
    IN  basePriority * efficiency30 * duration20 * systemFactor10

\* the static priority and the total energy of the k-th task packed
PackedPriority(k) ==
    StaticPriority(system_info, profiles[task_energy_data[k].task.name],
                   task_energy_data[k].task.duration)

PackedEnergy(k) ==
    TierRate(profiles[task_energy_data[k].task.name])
       * task_energy_data[k].task.duration

Sorted == strategy = "slot" /\ pc \in {"packing", "packed"}

\* C21: the tasks are packed in the order of descending static priority,
\* and tasks of equal priority in the order of ascending total energy.
C21_PackingOrder ==
    Sorted =>
        /\ { task_energy_data[k].idx : k \in 1..Len(task_energy_data) }
              = 1..Len(tasks)
        /\ \A k \in 1..Len(task_energy_data) :
              task_energy_data[k].task = tasks[task_energy_data[k].idx]
        /\ \A j, k \in 1..Len(task_energy_data) :
              j < k =>
                 \/ PackedPriority(j) > PackedPriority(k)
                 \/ /\ PackedPriority(j) = PackedPriority(k)
                    /\ PackedEnergy(j) <= PackedEnergy(k)

\* two tasks of equal priority have been put in the order of their
\* energies, against the order of tasks.txt
C21_Witness ==
    /\ Sorted
    /\ \E j, k \in 1..Len(task_energy_data) :
          /\ j < k
          /\ task_energy_data[j].idx > task_energy_data[k].idx
          /\ PackedPriority(j) = PackedPriority(k)
          /\ PackedEnergy(j) < PackedEnergy(k)
          /\ task_energy_data[j].task.name # task_energy_data[k].task.name

-----------------------------------------------------------------------------
(* The adapted priority *)

BasePriority(t) ==
    CASE t = "low" -> 1
      [] t = "medium" -> 2
      [] t = "high" -> 3

\* the energy multiplier, in tenths
EnergyMultiplier(t) ==
    CASE t = "low" -> 10
      [] t = "medium" -> 12
      [] t = "high" -> 15

\* C22: the adapted priority of a task is its base priority times the four
\* adaptation factors of the snapshot times its energy multiplier (here
\* times 10^5, every factor being held in tenths).
C22_AdaptedPriority ==
    (strategy = "monitor" /\ pc = "done") =>
        LET factors == calculate_adaptation_factors(system_info)
        IN  \A t \in Tiers :
               policy_result.priorities[t].adapted_priority =
                  BasePriority(t) * factors.battery_factor
                     * factors.cpu_factor * factors.thermal_factor
                     * factors.power_factor * EnergyMultiplier(t)

-----------------------------------------------------------------------------
(* The energy capacity *)

\* the battery scale b, in tenths
BatteryScale(info) ==
    IF "on_ac" \in DOMAIN info /\ ~info.on_ac
    THEN LET battery == IF "battery_percent" \in DOMAIN info
                        THEN info.battery_percent ELSE 100
         IN  CASE battery < 20 -> 3
               [] battery >= 20 /\ battery < 30 -> 5
               [] battery >= 30 /\ battery < 50 -> 7
               [] battery >= 50 -> 10
    ELSE 10

\* the load scale l, in tenths
LoadScale(info) ==
    IF "load_category" \notin DOMAIN info THEN 10
    ELSE CASE info.load_category = "high" -> 6
           [] info.load_category = "medium" -> 8
           [] info.load_category = "low" -> 10

\* max(20, trunc(100 * b * l))
ExpectedCapacity(info) ==
    LET scaled == (100 * BatteryScale(info) * LoadScale(info)) \div 100
    IN  IF scaled < 20 THEN 20 ELSE scaled

CapacityComputed == strategy = "capacity" /\ pc = "loaded"

\* C23: the energy capacity is max(20, trunc(100 * b * l)), b being the
\* battery scale (1 on mains power, else 0.3, 0.5, 0.7 or 1 by battery
\* bracket) and l the load scale (0.6 high, 0.8 medium, 1 low).
C23_CapacityFormula ==
    CapacityComputed => energy_capacity = ExpectedCapacity(system_info)

\* off mains power with the battery exactly at 20% under high load: the
\* bracket is 0.5 and the capacity 30
C23_Witness ==
    /\ CapacityComputed
    /\ system_info = Snapshot(20, FALSE, "high", "high")
    /\ energy_capacity = 30

\* C24: the capacity is always an integer from 20 to 100, and computing it
\* again on an unchanged snapshot gives the value it had.
C24_CapacityIdempotent ==
    /\ [](CapacityComputed => energy_capacity \in 20..100)
    /\ [][(CapacityComputed /\ system_info' = system_info)
            => energy_capacity' = energy_capacity]_vars

\* the capacity has been computed four times and is at its floor
C24_Witness ==
    /\ CapacityComputed
    /\ calls = MaxCalls
    /\ system_info = Snapshot(19, FALSE, "high", "high")
    /\ energy_capacity = 20

-----------------------------------------------------------------------------
(* The energy profile of a task *)

\* the profile derivable from a task and its tier
DerivedProfile(task) ==
    LET tier == IF task.name \in DOMAIN profiles
                THEN profiles[task.name] ELSE "medium"
        energyPerSecond == CASE tier = "low" -> 5
                             [] tier = "medium" -> 15
                             [] tier = "high" -> 30
    IN  [energy_level |-> tier,
         energy_per_second |-> energyPerSecond,
         duration |-> task.duration,
         total_energy |-> energyPerSecond * task.duration]

HoldDerivedProfiles(records) ==
    \A k \in 1..Len(records) :
        records[k].energy_data = DerivedProfile(records[k].task)

\* C25: every energy profile held in the packing state, in a slot, in a
\* completed record or in a deferred record has energyPerSecond 5, 15 or
\* 30 by tier and totalEnergy = energyPerSecond * duration of its task.
C25_ProfilesDerived ==
    strategy = "slot" =>
        /\ HoldDerivedProfiles(task_energy_data)
        /\ HoldDerivedProfiles(packing.current_slot_tasks)
        /\ HoldDerivedProfiles(ScheduledItems(packing.time_slots))
        /\ HoldDerivedProfiles(ScheduledItems(time_slots))
        /\ HoldDerivedProfiles(completed_tasks)
        /\ HoldDerivedProfiles(deferred_tasks)

\* a run that completed a low-tier and a medium-tier task and deferred a
\* high-tier one
C25_Witness ==
    /\ strategy = "slot"
    /\ pc = "done"
    /\ \E k \in 1..Len(completed_tasks) :
          completed_tasks[k].energy_data.energy_per_second = 5
    /\ \E k \in 1..Len(completed_tasks) :
          completed_tasks[k].energy_data.energy_per_second = 15
    /\ \E k \in 1..Len(deferred_tasks) :
          /\ deferred_tasks[k].energy_data.energy_per_second = 30
          /\ deferred_tasks[k].energy_data.total_energy = 60

-----------------------------------------------------------------------------
(* The Sequential dispatch order, tier by tier *)

\* high before medium before low
TierRank(t) ==
    CASE t = "high" -> 1
      [] t = "medium" -> 2
      [] t = "low" -> 3

LoggedTier(k) ==
    IF enhanced_log[k].task.name \in DOMAIN profiles
    THEN profiles[enhanced_log[k].task.name] ELSE "medium"

\* C26: whatever the snapshot, the Sequential run dispatches every
\* high-tier task before every medium-tier task and every medium-tier task
\* before every low-tier task, and the tasks of one tier in input order.
C26_DispatchByTier ==
    strategy = "seq" =>
        /\ \A j, k \in 1..Len(enhanced_log) :
              j < k =>
                 \/ TierRank(LoggedTier(j)) < TierRank(LoggedTier(k))
                 \/ /\ LoggedTier(j) = LoggedTier(k)
                    /\ enhanced_log[j].idx < enhanced_log[k].idx
        /\ pc = "done" => Len(enhanced_log) = Len(tasks)

\* a finished run on a low battery that was given a low-tier, a
\* medium-tier and a high-tier task in this order
C26_Witness ==
    /\ strategy = "seq"
    /\ pc = "done"
    /\ ~Get(system_info, "on_ac", TRUE)
    /\ Get(system_info, "battery_percent", 100) < 30
    /\ Len(tasks) = 3
    /\ Get(profiles, tasks[1].name, "medium") = "low"
    /\ Get(profiles, tasks[2].name, "medium") = "medium"
    /\ Get(profiles, tasks[3].name, "medium") = "high"
    /\ Len(enhanced_log) = 3

-----------------------------------------------------------------------------
(* Packing is next-fit *)

IsPrefix(s, t) == Len(s) <= Len(t) /\ SubSeq(t, 1, Len(s)) = s

\* positions in self.tasks of the tasks of a sequence of entries
Indices(entries) == [k \in 1..Len(entries) |-> entries[k].idx]

\* the slots follow the sorted task sequence, and no slot could have taken
\* the first task of the slot after it
NextFitSlots ==
    (strategy = "slot" /\ pc \in {"packed", "executing", "sleeping", "done"}) =>
        /\ Indices(ScheduledItems(time_slots)) = Indices(task_energy_data)
        /\ \A k \in 1..(Len(time_slots) - 1) :
              time_slots[k].total_energy
                 + time_slots[k + 1].tasks[1].energy_data.total_energy
              > energy_capacity

\* one iteration of the packing loop: the task joins the current slot iff
\* it fits, otherwise it seeds a new one; the closed slots stay as they are
NextFitStep ==
    (strategy = "slot" /\ pc = "packing" /\ pack_i' = pack_i + 1) =>
        LET item == task_energy_data[pack_i + 1]
            fits == packing.current_slot_energy
                       + item.energy_data.total_energy <= energy_capacity
            current == packing'.current_slot_tasks
        IN  /\ current[Len(current)].idx = item.idx
            /\ IsPrefix(packing.time_slots, packing'.time_slots)
            /\ fits => /\ Indices(current) =
                             Append(Indices(packing.current_slot_tasks),
                                    item.idx)
                       /\ packing'.time_slots = packing.time_slots
                       /\ packing'.current_slot_energy =
                             packing.current_slot_energy
                                + item.energy_data.total_energy
            /\ ~fits => /\ Indices(current) = << item.idx >>
                        /\ packing'.current_slot_energy =
                              item.energy_data.total_energy
                        /\ packing.current_slot_tasks # << >> =>
                              /\ Len(packing'.time_slots) =
                                    Len(packing.time_slots) + 1
                              /\ packing'.time_slots[Len(packing'.time_slots)]
                                    .tasks = packing.current_slot_tasks

\* C27: packing is next-fit over the sorted tasks: a task joins the current
\* slot iff the slot's energy plus the task's stays within the capacity,
\* otherwise it seeds a new slot, and closed slots are never reopened; so
\* each slot's energy plus the first task of the next slot exceeds the
\* capacity.
C27_NextFit == []NextFitSlots /\ [][NextFitStep]_vars

\* capacity 20: two 5-unit tasks share the first slot and a 60-unit task
\* has opened the second
C27_Witness ==
    /\ strategy = "slot"
    /\ pc = "packed"
    /\ energy_capacity = 20
    /\ Len(time_slots) = 2
    /\ Len(time_slots[1].tasks) = 2
    /\ time_slots[1].tasks[1].energy_data.total_energy = 5
    /\ time_slots[1].tasks[2].energy_data.total_energy = 5
    /\ time_slots[2].tasks[1].energy_data.total_energy = 60

-----------------------------------------------------------------------------
(* Low-tier tasks always run *)

IsLowTier(task) ==
    task.name \in DOMAIN profiles /\ profiles[task.name] = "low"

\* both policies answer 'do not defer', without a reason, for the low tier
LowTierNotDeferred ==
    (strategy = "policy" /\ pc = "done") =>
        /\ ~policy_result.verdicts["low"].defer
        /\ policy_result.form = "full" =>
              policy_result.verdicts["low"].reasons = << >>
        /\ policy_result.form = "reduced" =>
              policy_result.verdicts["low"].reason = NoReason

\* no low-tier task is among the deferred ones, and a finished run has
\* executed every low-tier task it was given
LowTierExecuted ==
    /\ strategy = "slot" =>
          /\ \A k \in 1..Len(deferred_tasks) :
                ~IsLowTier(deferred_tasks[k].task)
          /\ pc = "done" =>
                \A i \in 1..Len(tasks) :
                   IsLowTier(tasks[i]) =>
                      \E k \in 1..Len(completed_tasks) :
                         completed_tasks[k].idx = i
    /\ strategy = "seq" =>
          /\ \A k \in 1..Len(enhanced_log) :
                IsLowTier(enhanced_log[k].task) =>
                   enhanced_log[k].action = "executed"
          /\ pc = "done" =>
                \A i \in 1..Len(tasks) :
                   IsLowTier(tasks[i]) =>
                      \E k \in 1..Len(enhanced_log) :
                         enhanced_log[k].idx = i

\* C28: a low-tier task is never deferred: both deferral policies answer
\* 'do not defer' with no reason for it on every snapshot, and every
\* low-tier task of a run is executed.
C28_LowTierNeverDeferred == LowTierNotDeferred /\ LowTierExecuted

\* the full policy on a hot, stressed, overloaded system on a critical
\* battery defers the high tier and lets the low tier run
C28_Witness ==
    /\ strategy = "policy"
    /\ pc = "done"
    /\ policy_result.form = "full"
    /\ system_info = SnapshotT(15, FALSE, "high", "high", 81)
    /\ Len(policy_result.verdicts["high"].reasons) = 4
    /\ ~policy_result.verdicts["low"].defer

-----------------------------------------------------------------------------
(* The reduced policy against the full policy *)

\* the decision of the reduced and of the full policy on the probed
\* snapshot: the probed form's as recorded, the other form's as computed
ReducedDefers(t) ==
    IF policy_result.form = "reduced"
    THEN policy_result.verdicts[t].defer
    ELSE should_defer_task(system_info, [energy_level |-> t]).defer

FullDefers(t) ==
    IF policy_result.form = "full"
    THEN policy_result.verdicts[t].defer
    ELSE should_defer_task_enhanced(system_info, t).defer

\* the temperature is at most 70 and the stress is not high
CoolAndCalm ==
    /\ "temperature" \in DOMAIN system_info => system_info.temperature <= 70
    /\ "system_stress" \in DOMAIN system_info =>
          system_info.system_stress # "high"

\* C29: on every snapshot and tier, a task the reduced policy defers is
\* deferred by the full policy too, and the two policies decide alike when
\* the temperature is at most 70 and the stress is not high.
C29_ReducedRefinesFull ==
    (strategy = "policy" /\ pc = "done") =>
        \A t \in Tiers :
           /\ ReducedDefers(t) => FullDefers(t)
           /\ CoolAndCalm => (ReducedDefers(t) <=> FullDefers(t))

\* the reduced policy has deferred the high tier on a battery between 20%
\* and 30%, on a cool and calm system
C29_Witness ==
    /\ strategy = "policy"
    /\ pc = "done"
    /\ policy_result.form = "reduced"
    /\ system_info = SnapshotT(29, FALSE, "low", "low", 70)
    /\ policy_result.verdicts["high"].defer
    /\ ~policy_result.verdicts["medium"].defer

-----------------------------------------------------------------------------
(* The simulated times of the tasks of a slot *)

\* the tasks of the slot follow one another without a gap or an overlap,
\* from the start of the slot
BackToBack(slot) ==
    /\ slot.tasks[1].start_time = slot.start_time
    /\ \A k \in 2..Len(slot.tasks) :
          slot.tasks[k].start_time = slot.tasks[k - 1].end_time

\* C30: in every slot of the timetable the first task starts at the
\* slot's start time and each later task starts when the task placed
\* before it ends, whatever tiers the slot holds.
C30_SlotTasksBackToBack ==
    (strategy = "slot" /\ pc \in {"packed", "executing", "sleeping", "done"}) =>
        \A s \in 1..Len(time_slots) : BackToBack(time_slots[s])

-----------------------------------------------------------------------------
(* Which run a polled report comes from *)

\* C31: once a start request has cleared the old artifacts, a report
\* returned by a schedule-status poll was written by the run of the most
\* recent start request.
C31_PolledReportIsLatestRun ==
    [][(api'.polls = api.polls + 1 /\ api.cleared >= 1
        /\ api'.polled.has_schedule)
          => api'.polled.writer = api.cleared]_vars

-----------------------------------------------------------------------------
(* The executor follows the packing sort order *)

\* the entry at position j of the timetable sorts before the one at k:
\* by larger static priority, then smaller total energy, then input order
SortsBefore(items, j, k) ==
    LET pj == StaticPriority(system_info, profiles[items[j].task.name],
                             items[j].task.duration)
        pk == StaticPriority(system_info, profiles[items[k].task.name],
                             items[k].task.duration)
        ej == TierRate(profiles[items[j].task.name]) * items[j].task.duration
        ek == TierRate(profiles[items[k].task.name]) * items[k].task.duration
    IN  \/ pj > pk
        \/ pj = pk /\ ej < ek
        \/ pj = pk /\ ej = ek /\ items[j].idx < items[k].idx

\* the slots, one after the other, hold the sorted task sequence
SlotsInSortOrder ==
    (strategy = "slot" /\ pc \in {"packed", "executing", "sleeping", "done"}) =>
        LET items == ScheduledItems(time_slots)
        IN  /\ Len(items) = Len(tasks)
            /\ \A k \in 1..Len(items) : items[k].task = tasks[items[k].idx]
            /\ \A j, k \in 1..Len(items) :
                  j < k => SortsBefore(items, j, k)

\* the entry execute_schedule is at: the one after those it has settled
EntryAtHand ==
    ScheduledItems(time_slots)[Len(completed_tasks) + Len(deferred_tasks) + 1]

\* the n-th dispatch of execute_schedule takes the n-th entry of that
\* sequence: it is deferred, or it starts executing and is the next to
\* complete
DispatchInSortOrder ==
    /\ (strategy = "slot" /\ pc = "executing" /\ pc' = "executing"
        /\ exec_i' # exec_i) =>
          /\ Len(deferred_tasks') = Len(deferred_tasks) + 1
          /\ deferred_tasks'[Len(deferred_tasks')].idx = EntryAtHand.idx
          /\ UNCHANGED completed_tasks
    /\ (strategy = "slot" /\ pc = "executing" /\ pc' = "sleeping") =>
          /\ current_executing' = { EntryAtHand.task.name }
          /\ UNCHANGED << completed_tasks, deferred_tasks >>
    /\ (strategy = "slot" /\ pc = "sleeping" /\ pc' = "executing") =>
          /\ Len(completed_tasks') = Len(completed_tasks) + 1
          /\ completed_tasks'[Len(completed_tasks')].idx = EntryAtHand.idx
          /\ UNCHANGED deferred_tasks

\* C32: the tasks of the slots, taken in slot order, are the
\* priority-sorted task sequence (descending static priority, ties by
\* ascending total energy, then input order), and the executor dispatches
\* the tasks in exactly this order.
C32_DispatchInPackingOrder == []SlotsInSortOrder /\ [][DispatchInSortOrder]_vars

\* a finished run over two slots or more that dispatched two tasks of equal
\* priority against their input order
C32_Witness ==
    /\ strategy = "slot"
    /\ pc = "done"
    /\ Len(time_slots) >= 2
    /\ LET items == ScheduledItems(time_slots)
       IN  \E j, k \in 1..Len(items) :
              /\ j < k
              /\ items[j].idx > items[k].idx
              /\ StaticPriority(system_info, profiles[items[j].task.name],
                                items[j].task.duration)
                 = StaticPriority(system_info, profiles[items[k].task.name],
                                  items[k].task.duration)

-----------------------------------------------------------------------------
(* Execution is serial *)

\* at most one task executes, and none outside the sleep of a dispatched
\* and accepted task
OneAtATime ==
    strategy = "slot" =>
        /\ Cardinality(current_executing) <= 1
        /\ pc = "sleeping" =>
              /\ current_executing = { EntryAtHand.task.name }
              /\ ~should_defer_task(system_info, EntryAtHand.energy_data).defer
        /\ pc # "sleeping" => current_executing = {}
        /\ pc = "done" => generate_execution_report.currently_executing = 0

\* a task enters the executing set only by being dispatched and accepted
EntersByDispatch ==
    (strategy = "slot" /\ current_executing' # current_executing
     /\ current_executing' # {}) =>
        /\ pc = "executing"
        /\ pc' = "sleeping"
        /\ current_executing' = { EntryAtHand.task.name }
        /\ UNCHANGED deferred_tasks

\* C33: execution is serial: at most one task is in the executing set, a
\* task enters it only when it is dispatched and not deferred, the set is
\* empty between dispatches and at the end of the run, and the report of
\* a finished run shows executing = 0.
C33_SerialExecution == []OneAtATime /\ [][EntersByDispatch]_vars

\* the second accepted task of a run is executing, alone
C33_Witness ==
    /\ strategy = "slot"
    /\ pc = "sleeping"
    /\ Len(completed_tasks) = 1
    /\ Len(deferred_tasks) = 1
    /\ Cardinality(current_executing) = 1

-----------------------------------------------------------------------------
(* The packing order, tier by tier *)

SortedTier(k) == task_energy_data[k].energy_data.energy_level

\* C34: in the packing sort order every high-tier task comes after every
\* low-tier and every medium-tier task, the priority of a high-tier task
\* being below that of any low-tier or medium-tier task.
C34_HighTierLast ==
    Sorted =>
        \A j, k \in 1..Len(task_energy_data) :
           (SortedTier(j) = "high" /\ SortedTier(k) # "high") =>
              /\ k < j
              /\ task_energy_data[j].priority < task_energy_data[k].priority

\* a high-tier task of no duration, first in tasks.txt, has been sorted
\* behind a medium-tier and a low-tier task of ten seconds
C34_Witness ==
    /\ Sorted
    /\ Len(tasks) = 3
    /\ tasks[1] = Task("backup", 0)
    /\ tasks[2] = Task("report", 10)
    /\ tasks[3] = Task("sync", 10)
    /\ task_energy_data[3].idx = 1

SortedDuration(k) == task_energy_data[k].task.duration

\* C35: in the packing sort order tasks of the same tier are in the order
\* of non-decreasing duration: below 10 seconds the priority decides, from
\* 10 seconds up the priorities tie and the ascending total energy decides;
\* tasks of the same tier and duration keep the order of tasks.txt.
C35_SameTierByDuration ==
    Sorted =>
        \A j, k \in 1..Len(task_energy_data) :
           (j < k /\ SortedTier(j) = SortedTier(k)) =>
              /\ SortedDuration(j) <= SortedDuration(k)
              /\ (SortedDuration(j) < SortedDuration(k)
                     /\ SortedDuration(j) < 10) =>
                    task_energy_data[j].priority > task_energy_data[k].priority
              /\ (SortedDuration(j) >= 10 /\ SortedDuration(k) >= 10) =>
                    /\ task_energy_data[j].priority
                          = task_energy_data[k].priority
                    /\ PackedEnergy(j) <= PackedEnergy(k)
              /\ SortedDuration(j) = SortedDuration(k) =>
                    task_energy_data[j].idx < task_energy_data[k].idx

\* on a low battery three low-tier tasks listed longest first, two of them
\* of 10 seconds or more, have been sorted shortest first
C35_Witness ==
    /\ Sorted
    /\ system_info = Snapshot(29, FALSE, "low", "low")
    /\ Len(tasks) = 3
    /\ tasks[1] = Task("sync", 11)
    /\ tasks[2] = Task("sync", 10)
    /\ tasks[3] = Task("sync", 8)
    /\ task_energy_data[1].idx = 3
    /\ task_energy_data[2].idx = 2
    /\ task_energy_data[3].idx = 1

\* two equal lines of tasks.txt have kept their order behind a shorter task
C35_WitnessStable ==
    /\ Sorted
    /\ Len(tasks) = 3
    /\ tasks[1] = Task("report", 10)
    /\ tasks[2] = Task("report", 10)
    /\ tasks[3] = Task("report", 5)
    /\ task_energy_data[1].idx = 3
    /\ task_energy_data[2].idx = 1
    /\ task_energy_data[3].idx = 2

-----------------------------------------------------------------------------
(* The windows of the slots *)

\* the closed slots and the slot still open, while the loop runs and after
SlotsSoFar ==
    IF pc = "packing" THEN AddFinalSlot(packing) ELSE time_slots

\* every slot lasts a minute and opens with its first task; the slot of
\* index k begins k minutes after the slot before it, so the starts grow
\* and no two windows overlap
SlotWindows ==
    (strategy = "slot"
       /\ pc \in {"packing", "packed", "executing", "sleeping", "done"}) =>
        LET slots == SlotsSoFar
        IN  /\ \A k \in 1..Len(slots) :
                  /\ slots[k].end_time = slots[k].start_time + SixthsPerMinute
                  /\ slots[k].tasks[1].start_time = slots[k].start_time
            /\ \A k \in 1..(Len(slots) - 1) :
                  /\ slots[k + 1].start_time
                        = slots[k].start_time + k * SixthsPerMinute
                  /\ slots[k].start_time < slots[k + 1].start_time
            /\ \A j, k \in 1..Len(slots) :
                  j < k => slots[j].end_time <= slots[k].start_time

\* the iteration that opens a slot: the slot begins as many minutes after
\* the slot before it as there are closed slots
OpensSlot ==
    (strategy = "slot" /\ pc = "packing" /\ pack_i' = pack_i + 1
       /\ packing.current_slot_energy
             + task_energy_data[pack_i + 1].energy_data.total_energy
          > energy_capacity) =>
        /\ packing'.slot_start_time
              = packing.slot_start_time
                   + Len(packing'.time_slots) * SixthsPerMinute
        /\ packing'.current_slot_tasks[1].start_time
              = packing'.slot_start_time

\* C36: a newly opened slot begins at the previous slot's start plus k
\* minutes, k being the number of slots already closed, its first task
\* starts at the slot's start and every slot ends a minute after its
\* start; the starts are strictly increasing in slot order and the windows
\* of different slots do not overlap.
C36_SlotWindows == []SlotWindows /\ [][OpensSlot]_vars

\* three slots: the third begins two minutes after the second, three
\* minutes after the first
C36_Witness ==
    /\ strategy = "slot"
    /\ pc = "packed"
    /\ Len(time_slots) = 3
    /\ time_slots[1].start_time = 0
    /\ time_slots[2].start_time = SixthsPerMinute
    /\ time_slots[3].start_time = 3 * SixthsPerMinute

\* an oversized first task has opened its slot at the origin, no slot
\* having been closed
C36_WitnessOversizedFirst ==
    /\ strategy = "slot"
    /\ pc = "packed"
    /\ Len(time_slots) = 2
    /\ time_slots[1].total_energy > energy_capacity
    /\ time_slots[1].start_time = 0
    /\ time_slots[2].start_time = SixthsPerMinute

-----------------------------------------------------------------------------
(* The energy account of the report *)

\* C37: in every report totalEnergyUsed is at most totalEnergyPlanned, so
\* energyEfficiency is at most 100, and at the end of a run totalEnergyUsed
\* plus the total energy of the deferred tasks is totalEnergyPlanned.
C37_EnergyAccount ==
    strategy = "slot" =>
        LET report == generate_execution_report
        IN  /\ report.total_energy_used <= report.total_energy_planned
            /\ report.energy_efficiency_num
                  <= 100 * report.energy_efficiency_den
            /\ pc = "done" =>
                  report.total_energy_used + SumTotalEnergy(deferred_tasks)
                     = report.total_energy_planned

\* a finished run: two tasks of 50 and 5 units were executed and one of 60
\* units was deferred
C37_Witness ==
    LET report == generate_execution_report
    IN  /\ strategy = "slot"
        /\ pc = "done"
        /\ report.total_energy_used = 55
        /\ SumTotalEnergy(deferred_tasks) = 60
        /\ report.total_energy_planned = 115
        /\ Len(completed_tasks) = 2
        /\ Len(deferred_tasks) = 1

-----------------------------------------------------------------------------
(* The content of the slots *)

\* C38: every slot of the timetable holds at least one task and its
\* total_energy is the sum of the total_energy of the tasks it holds; an
\* empty task list gives an empty timetable.
C38_SlotsNonEmptyAndSummed ==
    (strategy = "slot" /\ pc \in {"packing", "packed", "executing",
                                   "sleeping", "done"}) =>
        LET slots == SlotsSoFar
        IN  /\ \A k \in 1..Len(slots) :
                  /\ Len(slots[k].tasks) >= 1
                  /\ slots[k].total_energy = SumTotalEnergy(slots[k].tasks)
            /\ tasks = << >> => slots = << >>

\* two low-tier tasks of 5 and 10 units share the first slot and a task of
\* 150 units has the second
C38_Witness ==
    /\ Packed
    /\ Len(time_slots) = 2
    /\ Len(time_slots[1].tasks) = 2
    /\ time_slots[1].total_energy = 15
    /\ time_slots[2].total_energy = 150

\* the timetable of an empty tasks.txt
C38_WitnessEmpty == Packed /\ tasks = << >> /\ time_slots = << >>

====
